---- MODULE Spec2Model ----
(***************************************************************************)
(* Figmatron request pipeline: the UI orchestrator (src/ui/App.tsx), the   *)
(* plugin host (src/code.ts) and the pure pipeline functions               *)
(* (src/ui/agentPipeline.ts, held in src/unnamed/part_002).                *)
(*                                                                         *)
(* The UI and the host are two single-threaded event loops joined by two   *)
(* ordered postMessage channels.  One action of the model is one task of   *)
(* an event loop together with the promise continuations (microtasks) it   *)
(* releases: a message handler, a timer callback, a click, the settling of *)
(* a fetch.                                                                *)
(***************************************************************************)
EXTENDS Integers, Sequences, FiniteSets, TLC

\* Bounds of the model.
MaxRequests == 2     \* accepted runQuery calls (request ids are 1..MaxRequests)
MaxCancels == 1      \* clicks on Cancel while one request is in flight
MaxPosted == 3       \* HostSpec: messages sent to the host

\* Program constants.
MAX_SVG_NODE_COUNT == 5000
DIAGNOSTICS_KEPT == 12

Modes == {"create", "modify", "ask", "vectorize"}
Routes == {"direct_svg", "structured_ir"}
RouteOverrides == {"auto"} \cup Routes
ResponseModes == {"text", "ir_json", "svg"}
Categories == {"model", "parse", "validation", "insert", "canceled"}
Outcomes == {"success", "failed", "canceled"}
STAGES == <<"prepare_context", "route", "model_call", "parse", "validate",
            "repair_if_needed", "insert_or_return", "done">>

Range(s) == {s[i] : i \in DOMAIN s}

(***************************************************************************)
(* Prompts.  A prompt is the text the user typed; Lowered gives            *)
(* prompt.toLowerCase() and Substrings the keyword-sized substrings of a   *)
(* lower-case text, which is all String.includes is asked about.           *)
(***************************************************************************)
StructuralKeywords == {"flowchart", "block diagram", "reflow", "orientation", "rotate"}
BypassKeywords == {"circuit", "logic gate", "schematic", "schema", "detailed", "symbols"}

Lowered(prompt) ==
  CASE prompt = "Make a FLOWCHART" -> "make a flowchart"
    [] prompt = "Flowchart of a CIRCUIT" -> "flowchart of a circuit"
    [] prompt = "Rotate the Block Diagram" -> "rotate the block diagram"
    [] prompt = "DETAILED workflow" -> "detailed workflow"
    [] OTHER -> prompt

Substrings(text) ==
  CASE text = "make a flowchart" -> {"flowchart"}
    [] text = "flowchart of a circuit" -> {"flowchart", "circuit"}
    [] text = "logic gate schematic" -> {"logic gate", "schematic", "schema"}
    [] text = "draw a process map" -> {"process map"}
    [] text = "workflow diagram" -> {"workflow"}
    [] text = "rotate the block diagram" -> {"rotate", "block diagram"}
    [] text = "detailed workflow" -> {"detailed", "workflow"}
    [] text = "reflow the symbols" -> {"reflow", "symbols"}
    [] OTHER -> {}

Includes(text, keyword) == keyword \in Substrings(text)

\* A faulty isStructuredTaskPrompt: the structural keywords are looked for first.
isStructuredTaskPromptKeywordsFirst(prompt, mode) ==
  IF mode = "ask" THEN FALSE
  ELSE LET normalized == Lowered(prompt)
       IN IF \E k \in StructuralKeywords : Includes(normalized, k)
          THEN TRUE
          ELSE FALSE

isStructuredTaskPrompt(prompt, mode) ==
  IF mode = "ask" THEN FALSE
  ELSE LET normalized == Lowered(prompt)
       IN IF \E k \in BypassKeywords : Includes(normalized, k)
          THEN FALSE
          ELSE \E k \in StructuralKeywords : Includes(normalized, k)

\* A faulty chooseRoute: the override is not looked at.
chooseRouteIgnoringOverride(prompt, mode, routeOverride) ==
  IF mode = "ask" THEN "direct_svg"
  ELSE IF mode = "vectorize" THEN "direct_svg"
  ELSE IF isStructuredTaskPrompt(prompt, mode) THEN "structured_ir"
  ELSE "direct_svg"

\* A faulty chooseRoute: the mode is not looked at.
chooseRouteByPrompt(prompt, mode, routeOverride) ==
  IF routeOverride \in Routes THEN routeOverride
  ELSE IF isStructuredTaskPrompt(prompt, "create") THEN "structured_ir"
  ELSE "direct_svg"

chooseRoute(prompt, mode, routeOverride) ==
  IF routeOverride \in Routes THEN routeOverride
  ELSE IF mode = "ask" THEN "direct_svg"
  ELSE IF mode = "vectorize" THEN "direct_svg"
  ELSE IF isStructuredTaskPrompt(prompt, mode) THEN "structured_ir"
  ELSE "direct_svg"

responseModeFor(mode, route) ==
  IF mode = "ask" THEN "text"
  ELSE IF route = "structured_ir" THEN "ir_json"
  ELSE "svg"

\* systemPromptFor: the template, by the name of its constant.
systemPromptFor(mode, route) ==
  IF mode = "ask" THEN "ASK_PROMPT"
  ELSE IF mode = "vectorize" THEN "VECTORIZE_PROMPT"
  ELSE IF route = "structured_ir" THEN "STRUCTURED_IR_PROMPT"
  ELSE "BASE_SVG_PROMPT"

(***************************************************************************)
(* Prompt building.  A text that is embedded in a prompt is known by its   *)
(* name and its length; what truncate returns is known by the text it was  *)
(* cut from, the number of characters kept from its start, and the number  *)
(* the marker states (no marker: <<>>).  The prompt is the sequence of its *)
(* segments, each with its label and what follows the label.               *)
(***************************************************************************)
MAX_PROMPT_SVG_CHARS == 120000

Text(name, length) == [name |-> name, length |-> length]

\* A faulty truncate: the text is cut to the budget and nothing says so.
truncateSilently(value, maxChars) ==
  [of |-> value,
   kept |-> IF value.length <= maxChars THEN value.length ELSE maxChars,
   removed |-> <<>>]

truncate(value, maxChars) ==
  IF value.length <= maxChars
  THEN [of |-> value, kept |-> value.length, removed |-> <<>>]
  ELSE [of |-> value, kept |-> maxChars, removed |-> <<value.length - maxChars>>]

\* String.toUpperCase on the modes.
ToUpper(mode) ==
  CASE mode = "create" -> "CREATE"
    [] mode = "modify" -> "MODIFY"
    [] mode = "ask" -> "ASK"
    [] mode = "vectorize" -> "VECTORIZE"
    [] OTHER -> mode

Segment(label, body) == [label |-> label, body |-> body]

\* The context packet as buildPromptText reads it: the optional svg is a text,
\* the optional screenshotPngBase64 is known by its length.
PromptContext(hasSelection, metadata, svg, screenshotPngBase64) ==
  [selectionInfo |-> [count |-> IF hasSelection THEN 1 ELSE 0,
                      hasSelection |-> hasSelection],
   metadata |-> metadata, svg |-> svg, screenshotPngBase64 |-> screenshotPngBase64]

buildPromptText(userPrompt, mode, route, context, screenshotIncluded) ==
  LET format == IF route = "structured_ir" THEN "JSON_DIAGRAM_IR"
                ELSE IF mode = "ask" THEN "TEXT"
                ELSE "SVG"
      estimatedBytes == IF context.screenshotPngBase64 # <<>>
                        THEN (context.screenshotPngBase64[1] * 3) \div 4
                        ELSE 0
  IN <<Segment("MODE", ToUpper(mode)),
       Segment("RESPONSE_FORMAT", format),
       Segment("USER_PROMPT", userPrompt),
       Segment("SELECTION_SUMMARY", context.selectionInfo)>>
     \o (IF context.metadata THEN <<Segment("PRIMARY_NODE_METADATA", TRUE)>> ELSE <<>>)
     \o (IF context.svg # <<>>
         THEN <<Segment("SELECTED_CONTEXT_SVG",
                        truncate(context.svg[1], MAX_PROMPT_SVG_CHARS))>>
         ELSE <<>>)
     \o (IF screenshotIncluded
         THEN <<Segment("SCREENSHOT_ATTACHED", estimatedBytes)>>
         ELSE <<>>)

MAX_PROMPT_SCREENSHOT_BYTES == 300000

\* callGemini's parts: the text, and the image when a screenshot is passed
\* (<<length>>, or <<>> for undefined) whose estimated size is within the limit.
geminiParts(userText, screenshotPngBase64) ==
  <<[text |-> userText]>>
  \o (IF screenshotPngBase64 # <<>> /\ screenshotPngBase64[1] # 0
         /\ (screenshotPngBase64[1] * 3) \div 4 <= MAX_PROMPT_SCREENSHOT_BYTES
      THEN <<[inline_data |-> screenshotPngBase64]>>
      ELSE <<>>)

\* runQuery, lines 461-482: what the first model call is made with.
firstModelRequest(queryPrompt, queryMode, route, context, includeScreenshot) ==
  LET systemPrompt == systemPromptFor(queryMode, route)
      userPrompt == buildPromptText(queryPrompt, queryMode, route, context,
                                    includeScreenshot)
  IN [systemPrompt |-> systemPrompt, userText |-> userPrompt,
      parts |-> geminiParts(userPrompt,
                            IF includeScreenshot THEN context.screenshotPngBase64
                            ELSE <<>>)]

\* buildRepairPrompt: the instructions, the prompt, the numbered errors and the
\* broken output.
buildRepairPrompt(originalPrompt, originalResponse, validationErrors) ==
  <<Segment("REPAIR_PROMPT", "trimmed"),
    Segment("ORIGINAL_USER_PROMPT", originalPrompt),
    Segment("VALIDATION_ERRORS",
            [index \in DOMAIN validationErrors |->
               [number |-> index, error |-> validationErrors[index]]]),
    Segment("BROKEN_OUTPUT", truncate(originalResponse, 180000))>>

\* App.tsx: includeScreenshot, from the mode and the two screenshot settings.
includeScreenshotFor(mode, autoScreenshotModify, screenshotForCreateAsk) ==
  IF mode = "vectorize" THEN TRUE
  ELSE IF mode = "modify" THEN autoScreenshotModify
  ELSE screenshotForCreateAsk

(***************************************************************************)
(* Markup.  A markup string is modelled by what DOMParser and the          *)
(* validator read from it: whether the sanitized text is empty, whether it *)
(* is longer than MAX_SVG_LENGTH, whether it parses, the root's tag and    *)
(* attributes (viewBox, width, height, and rootAttrs for any others), and   *)
(* the elements below the root that the validator can object to, in        *)
(* document order.  extra is the number of further, harmless elements.  An optional value   *)
(* (string | null, report | undefined) is a sequence of length 0 or 1.     *)
(***************************************************************************)
Err(msg, args) == [msg |-> msg, args |-> args]

Elem(tag, attrs) == [tag |-> tag, attrs |-> attrs]
Attr(name, value) == [name |-> name, value |-> value]

Markup(wellFormed, rootTag, viewBox, sized, elements) ==
  [empty |-> FALSE, long |-> FALSE, wellFormed |-> wellFormed, rootTag |-> rootTag,
   viewBox |-> viewBox, width |-> sized, height |-> sized, rootAttrs |-> <<>>,
   elements |-> elements, extra |-> 0]

ValidSvg == Markup(TRUE, "svg", TRUE, TRUE, <<>>)
NoViewBoxSvg == Markup(TRUE, "svg", FALSE, TRUE, <<>>)
ScriptSvg == Markup(TRUE, "svg", TRUE, FALSE, <<Elem("script", <<>>)>>)
BrokenSvg == Markup(FALSE, "svg", FALSE, FALSE, <<>>)

\* String.toLowerCase on the tag and attribute names and values the model uses.
ToLower(s) ==
  CASE s = "foreignObject" -> "foreignobject"
    [] s = "onClick" -> "onclick"
    [] s = "HTTPS://x" -> "https://x"
    [] s = "SVG" -> "svg"
    [] s = "HREF" -> "href"
    [] OTHER -> s

StartsWith(s, prefix) ==
  CASE prefix = "on" -> s \in {"onclick", "onClick", "onload", "on"}
    [] prefix = "http://" -> s \in {"http://x"}
    [] prefix = "https://" -> s \in {"https://x"}
    [] OTHER -> FALSE

disallowedTags == <<"script", "foreignobject", "iframe", "object", "embed">>

\* doc.getElementsByTagName(tag) on an XML document compares names exactly;
\* the root is one of the document's elements.
HasElementNamed(doc, tag) ==
  \/ doc.rootTag = tag
  \/ \E i \in DOMAIN doc.elements : doc.elements[i].tag = tag

\* A faulty attribute scan: names and values are compared as they are written.
RECURSIVE attrErrorsCaseSensitive(_)
attrErrorsCaseSensitive(attrs) ==
  IF attrs = <<>> THEN <<>>
  ELSE LET attr == Head(attrs)
           hrefErr == IF attr.name \in {"href", "xlink:href"}
                         /\ (StartsWith(attr.value, "http://")
                               \/ StartsWith(attr.value, "https://"))
                      THEN <<Err("External href references are not allowed.", <<>>)>>
                      ELSE <<>>
           onErr == IF StartsWith(attr.name, "on")
                    THEN <<Err("Event attribute is not allowed.", <<attr.name>>)>>
                    ELSE <<>>
       IN hrefErr \o onErr \o attrErrorsCaseSensitive(Tail(attrs))

RECURSIVE attrErrors(_)
attrErrors(attrs) ==
  IF attrs = <<>> THEN <<>>
  ELSE LET attr == Head(attrs)
           attrName == ToLower(attr.name)
           attrValue == ToLower(attr.value)
           hrefErr == IF attrName \in {"href", "xlink:href"}
                         /\ (StartsWith(attrValue, "http://") \/ StartsWith(attrValue, "https://"))
                      THEN <<Err("External href references are not allowed.", <<>>)>>
                      ELSE <<>>
           onErr == IF StartsWith(attrName, "on")
                    THEN <<Err("Event attribute is not allowed.", <<attr.name>>)>>
                    ELSE <<>>
       IN hrefErr \o onErr \o attrErrors(Tail(attrs))

RECURSIVE elementErrors(_)
elementErrors(elements) ==
  IF elements = <<>> THEN <<>>
  ELSE attrErrors(Head(elements).attrs) \o elementErrors(Tail(elements))

\* A faulty elementCount: the root is not counted.
elementCountBelowRoot(doc) == Len(doc.elements) + doc.extra

\* querySelectorAll('*'): the root, the listed elements and the harmless ones.
elementCount(doc) == 1 + Len(doc.elements) + doc.extra

\* A faulty validateSvg: the report of a parse failure has the category of the
\* other reports.
validateSvgParseErrorAsValidation(doc) ==
  LET emptyErr == IF doc.empty THEN <<Err("SVG content is empty.", <<>>)>> ELSE <<>>
      longWarn == IF doc.long THEN <<Err("SVG length is very large.", <<>>)>> ELSE <<>>
  IN IF ~doc.wellFormed
     THEN [category |-> "validation",
           errors |-> emptyErr \o <<Err("SVG XML parse error.", <<>>)>>,
           warnings |-> longWarn,
           repairable |-> TRUE,
           svg |-> <<doc>>]
     ELSE
       LET rootErr == IF ToLower(doc.rootTag) # "svg"
                      THEN <<Err("Root element must be <svg>.", <<>>)>> ELSE <<>>
           viewBoxErr == IF ~doc.viewBox
                         THEN <<Err("Missing required viewBox attribute on <svg>.", <<>>)>>
                         ELSE <<>>
           badTags == SelectSeq(disallowedTags, LAMBDA tag : HasElementNamed(doc, tag))
           tagErr == IF Len(badTags) > 0
                     THEN <<Err("Disallowed tags found", badTags)>> ELSE <<>>
           countErr == IF elementCount(doc) > MAX_SVG_NODE_COUNT
                       THEN <<Err("SVG has too many nodes.", <<>>)>> ELSE <<>>
           sizeWarn == IF ~doc.width \/ ~doc.height
                       THEN <<Err("SVG width/height missing; relying on viewBox only.", <<>>)>>
                       ELSE <<>>
           errors == emptyErr \o rootErr \o viewBoxErr \o tagErr \o countErr
                       \o attrErrors(doc.rootAttrs) \o elementErrors(doc.elements)
       IN [category |-> "validation",
           errors |-> errors,
           warnings |-> longWarn \o sizeWarn,
           repairable |-> Len(errors) > 0,
           svg |-> <<doc>>]

validateSvg(doc) ==
  LET emptyErr == IF doc.empty THEN <<Err("SVG content is empty.", <<>>)>> ELSE <<>>
      longWarn == IF doc.long THEN <<Err("SVG length is very large.", <<>>)>> ELSE <<>>
  IN IF ~doc.wellFormed
     THEN [category |-> "parse",
           errors |-> emptyErr \o <<Err("SVG XML parse error.", <<>>)>>,
           warnings |-> longWarn,
           repairable |-> TRUE,
           svg |-> <<doc>>]
     ELSE
       LET rootErr == IF ToLower(doc.rootTag) # "svg"
                      THEN <<Err("Root element must be <svg>.", <<>>)>> ELSE <<>>
           viewBoxErr == IF ~doc.viewBox
                         THEN <<Err("Missing required viewBox attribute on <svg>.", <<>>)>>
                         ELSE <<>>
           badTags == SelectSeq(disallowedTags, LAMBDA tag : HasElementNamed(doc, tag))
           tagErr == IF Len(badTags) > 0
                     THEN <<Err("Disallowed tags found", badTags)>> ELSE <<>>
           countErr == IF elementCount(doc) > MAX_SVG_NODE_COUNT
                       THEN <<Err("SVG has too many nodes.", <<>>)>> ELSE <<>>
           sizeWarn == IF ~doc.width \/ ~doc.height
                       THEN <<Err("SVG width/height missing; relying on viewBox only.", <<>>)>>
                       ELSE <<>>
           errors == emptyErr \o rootErr \o viewBoxErr \o tagErr \o countErr
                       \o attrErrors(doc.rootAttrs) \o elementErrors(doc.elements)
       IN [category |-> "validation",
           errors |-> errors,
           warnings |-> longWarn \o sizeWarn,
           repairable |-> Len(errors) > 0,
           svg |-> <<doc>>]

(***************************************************************************)
(* Diagram descriptions (DiagramIR).  absent nodes / edges stand for a     *)
(* JSON value without that member; isNull for the JSON value null.  The    *)
(* description is what JSON.parse returned, cast to DiagramIR unchecked:   *)
(* the widths and heights the validator compares are optional too, <<n>>   *)
(* or <<>> for a member the JSON value does not have.                      *)
(***************************************************************************)
Node(id, x, y, width, height) ==
  [id |-> id, kind |-> "block", label |-> id, x |-> x, y |-> y,
   width |-> <<width>>, height |-> <<height>>]

\* The node without its width member.
WithoutWidth(node) == [node EXCEPT !.width = <<>>]

\* value <= 0 in JavaScript: false when value is undefined.
LeqZero(value) == value # <<>> /\ value[1] <= 0
Edge(id, from, to) == [id |-> id, from |-> from, to |-> to, label |-> ""]

\* diagram.styles with no member set.  An optional string is "" when it is
\* absent (absent and empty are both falsy), an optional number <<>>.
NoStyles ==
  [stroke |-> "", fill |-> "", textColor |-> "", strokeWidth |-> <<>>, fontSize |-> <<>>]

Diagram(kind, width, height, nodes, edges, stroke) ==
  [isNull |-> FALSE, kind |-> kind,
   canvas |-> <<[width |-> <<width>>, height |-> <<height>>, padding |-> <<>>]>>,
   nodes |-> <<nodes>>, edges |-> <<edges>>,
   styles |-> [NoStyles EXCEPT !.stroke = stroke]]

NullDiagram ==
  [isNull |-> TRUE, kind |-> "", canvas |-> <<>>, nodes |-> <<>>, edges |-> <<>>,
   styles |-> NoStyles]

GoodDiagram ==
  Diagram("diagram", 500, 500, <<Node("1", 10, 10, 100, 50)>>, <<>>, "")
EmptyDiagram == Diagram("diagram", 500, 500, <<>>, <<>>, "")
QuoteDiagram ==
  Diagram("diagram", 500, 500, <<Node("1", 10, 10, 100, 50)>>, <<>>, "\"<")

\* diagram.nodes || []  and  diagram.edges || []
nodesOrEmpty(diagram) == IF diagram.nodes = <<>> THEN <<>> ELSE diagram.nodes[1]
edgesOrEmpty(diagram) == IF diagram.edges = <<>> THEN <<>> ELSE diagram.edges[1]

\* The set the node loop leaves in nodeIds.
collectedNodeIds(nodes) == {nodes[i].id : i \in DOMAIN nodes} \ {""}

\* The node loop: the errors it pushes for these nodes when it starts with
\* nodeIds.  One iteration is the case of one node; the loop over a longer
\* list is the loop over its first half, then the loop over the rest with
\* the ids the first half has added.
RECURSIVE nodeErrors(_, _)
nodeErrors(nodes, nodeIds) ==
  IF nodes = <<>> THEN <<>>
  ELSE IF Len(nodes) = 1
  THEN LET node == Head(nodes)
       IN IF node.id = ""
          THEN <<Err("Node is missing id.", <<>>)>>
          ELSE (IF node.id \in nodeIds
                THEN <<Err("Duplicate node id", <<node.id>>)>> ELSE <<>>)
               \o (IF LeqZero(node.width) \/ LeqZero(node.height)
                   THEN <<Err("Node has non-positive size.", <<node.id>>)>> ELSE <<>>)
  ELSE LET half == Len(nodes) \div 2
           first == SubSeq(nodes, 1, half)
           rest == SubSeq(nodes, half + 1, Len(nodes))
       IN nodeErrors(first, nodeIds)
            \o nodeErrors(rest, nodeIds \cup collectedNodeIds(first))

RECURSIVE edgeErrors(_, _)
edgeErrors(edges, nodeIds) ==
  IF edges = <<>> THEN <<>>
  ELSE LET edge == Head(edges)
       IN (IF edge.from \notin nodeIds
           THEN <<Err("Edge references missing from-node.", <<edge.id, edge.from>>)>>
           ELSE <<>>)
          \o (IF edge.to \notin nodeIds
              THEN <<Err("Edge references missing to-node.", <<edge.id, edge.to>>)>>
              ELSE <<>>)
          \o edgeErrors(Tail(edges), nodeIds)

\* validateDiagramIR reads diagram.canvas of null: a TypeError.
validateDiagramIRThrows(diagram) == diagram.isNull

\* A faulty validateDiagramIR: a report with warnings is repairable too.
validateDiagramIRWarningsRepairable(diagram) ==
  LET nodes == nodesOrEmpty(diagram)
      errors == (IF diagram.kind # "diagram"
                 THEN <<Err("Diagram IR kind must be \"diagram\".", <<>>)>> ELSE <<>>)
                \o (IF diagram.canvas = <<>>
                       \/ LeqZero(diagram.canvas[1].width)
                       \/ LeqZero(diagram.canvas[1].height)
                    THEN <<Err("Diagram canvas width and height must be positive.", <<>>)>>
                    ELSE <<>>)
                \o (IF Len(nodes) = 0
                    THEN <<Err("Diagram must contain at least one node.", <<>>)>> ELSE <<>>)
                \o (IF diagram.edges = <<>>
                    THEN <<Err("Diagram edges must be an array.", <<>>)>> ELSE <<>>)
                \o nodeErrors(nodes, {})
                \o edgeErrors(edgesOrEmpty(diagram), collectedNodeIds(nodes))
      warnings == IF Len(nodes) > 100
                  THEN <<Err("Large diagram node count may reduce readability.", <<>>)>>
                  ELSE <<>>
  IN [category |-> "validation", errors |-> errors, warnings |-> warnings,
      repairable |-> Len(errors) > 0 \/ Len(warnings) > 0, svg |-> <<>>]

validateDiagramIR(diagram) ==
  LET kindErr == IF diagram.kind # "diagram"
                 THEN <<Err("Diagram IR kind must be \"diagram\".", <<>>)>> ELSE <<>>
      canvasErr == IF diagram.canvas = <<>>
                      \/ LeqZero(diagram.canvas[1].width)
                      \/ LeqZero(diagram.canvas[1].height)
                   THEN <<Err("Diagram canvas width and height must be positive.", <<>>)>>
                   ELSE <<>>
      noNodesErr == IF diagram.nodes = <<>> \/ Len(nodesOrEmpty(diagram)) = 0
                    THEN <<Err("Diagram must contain at least one node.", <<>>)>> ELSE <<>>
      edgesErr == IF diagram.edges = <<>>
                  THEN <<Err("Diagram edges must be an array.", <<>>)>> ELSE <<>>
      nodes == nodesOrEmpty(diagram)
      errors == kindErr \o canvasErr \o noNodesErr \o edgesErr
                  \o nodeErrors(nodes, {})
                  \o edgeErrors(edgesOrEmpty(diagram), collectedNodeIds(nodes))
      warnings == IF Len(nodes) > 100
                  THEN <<Err("Large diagram node count may reduce readability.", <<>>)>>
                  ELSE <<>>
  IN [category |-> "validation", errors |-> errors, warnings |-> warnings,
      repairable |-> Len(errors) > 0, svg |-> <<>>]

\* A string written into the markup as it is, between double quotes or as
\* text, keeps the document well formed unless it holds a quote, an angle
\* bracket or an ampersand that starts no entity.
XmlSafe(s) == s \notin {"\"<", "A & B"}

\* escapeXml on the strings the model uses.
escapeXml(value) ==
  CASE value = "\"<" -> "&quot;&lt;"
    [] value = "A & B" -> "A &amp; B"
    [] OTHER -> value

\* value || fallback, for an optional number (0 is falsy) and for a string.
NumberOr(value, fallback) ==
  IF value = <<>> \/ value[1] = 0 THEN fallback ELSE value[1]
StringOr(value, fallback) == IF value = "" THEN fallback ELSE value

\* renderDiagramIrToSvg, called on a description that has its node and edge
\* lists.  The markup it returns is known, like any markup, by what the
\* validator reads from it, and besides by the values it was drawn with
\* (drawn): the group's translation, the stroke width and the font size.
\* An edge is drawn when both its ends are nodes, with a text when it has a
\* label; a node is drawn as a shape (unless its kind is text) and a text.
renderDiagramIrToSvg(diagram) ==
  LET stroke == StringOr(diagram.styles.stroke, "#1f2937")
      fill == StringOr(diagram.styles.fill, "#ffffff")
      textColor == StringOr(diagram.styles.textColor, "#111827")
      strokeWidth == NumberOr(diagram.styles.strokeWidth, 2)
      fontSize == NumberOr(diagram.styles.fontSize, 14)
      padding == NumberOr(diagram.canvas[1].padding, 24)
      nodes == nodesOrEmpty(diagram)
      edges == edgesOrEmpty(diagram)
      nodesById == {nodes[i].id : i \in DOMAIN nodes}
      drawnEdges == {k \in DOMAIN edges :
                       edges[k].from \in nodesById /\ edges[k].to \in nodesById}
      labelledEdges == {k \in drawnEdges : edges[k].label # ""}
      shapes == {i \in DOMAIN nodes : nodes[i].kind # "text"}
      written == (IF drawnEdges # {} \/ shapes # {} THEN {stroke} ELSE {})
                   \cup (IF shapes # {} THEN {fill} ELSE {})
                   \cup (IF nodes # <<>> \/ labelledEdges # {} THEN {textColor} ELSE {})
                   \cup {escapeXml(edges[k].label) : k \in labelledEdges}
                   \cup {escapeXml(nodes[i].label) : i \in DOMAIN nodes}
  IN [empty |-> FALSE, long |-> FALSE,
      wellFormed |-> \A text \in written : XmlSafe(text),
      rootTag |-> "svg", viewBox |-> TRUE, width |-> TRUE, height |-> TRUE,
      rootAttrs |-> <<>>, elements |-> <<>>,
      extra |-> 2 + Cardinality(drawnEdges) + Cardinality(labelledEdges)
                  + Cardinality(shapes) + Len(nodes),
      drawn |-> [padding |-> padding, strokeWidth |-> strokeWidth,
                 fontSize |-> fontSize]]

(***************************************************************************)
(* Model responses.  A response text is modelled by what the two           *)
(* extraction grammars find in it: the first <svg>..</svg> inside a fenced *)
(* block, the first one anywhere, and the JSON candidate (a fenced block's *)
(* content, or the text from the first brace to the last).                 *)
(***************************************************************************)
Response(fencedSvg, rawSvg, json, diagram) ==
  [fencedSvg |-> fencedSvg, rawSvg |-> rawSvg, json |-> json, diagram |-> diagram]

ProseResponse == Response(<<>>, <<>>, "none", NullDiagram)
SvgResponse(doc) == Response(<<>>, <<doc>>, "none", NullDiagram)
FencedSvgResponse(doc) == Response(<<doc>>, <<doc>>, "malformed", NullDiagram)
JsonResponse(diagram) == Response(<<>>, <<>>, "parsed", diagram)
BadJsonResponse == Response(<<>>, <<>>, "malformed", NullDiagram)

\* The value (a sequence of at most one markup) or null (the empty sequence).
extractSvgFromResponse(responseText) ==
  IF responseText.fencedSvg # <<>> THEN responseText.fencedSvg
  ELSE responseText.rawSvg

extractJsonFromResponse(responseText) == responseText.json

\* parseDiagramIR: the DiagramIR, or the error it throws.
Thrown(name) == [ok |-> FALSE, error |-> name, value |-> NullDiagram]
Returned(value) == [ok |-> TRUE, error |-> "", value |-> value]

parseDiagramIR(responseText) ==
  LET jsonCandidate == extractJsonFromResponse(responseText)
  IN IF jsonCandidate = "none" THEN Thrown("Error")
     ELSE IF jsonCandidate = "malformed" THEN Thrown("SyntaxError")
     ELSE Returned(responseText.diagram)

(***************************************************************************)
(* runQuery.  Its activation record r holds the arguments, the locals, the *)
(* trace object and pc, the await it is suspended at ("returned" once the  *)
(* finally block has run).  stageLog, modelCalls, imageSent (per model     *)
(* call, whether the request carried the image), category, canceledAt and  *)
(* cancelClicks record what happened, for the properties and the bound on  *)
(* clicks; the program reads none of them.  routeOverride is the setting   *)
(* the route was chosen under.                                             *)
(***************************************************************************)
NoTrace ==
  [requestId |-> 0, mode |-> "", route |-> "", responseMode |-> "",
   stageTimingsMs |-> {}, validation |-> <<>>, outcome |-> "", errorMessage |-> FALSE,
   repaired |-> <<>>, endedAt |-> FALSE]

NoRun ==
  [requestId |-> 0, queryPrompt |-> "", queryMode |-> "", forceRepair |-> FALSE,
   route |-> "", responseMode |-> "", includeScreenshot |-> FALSE,
   trace |-> NoTrace, currentStage |-> "", repaired |-> FALSE,
   validationReport |-> <<>>, insertSvg |-> <<>>, pc |-> "idle",
   stageLog |-> <<>>, modelCalls |-> 0, category |-> "", canceledAt |-> <<>>,
   cancelClicks |-> 0, imageSent |-> <<>>, routeOverride |-> ""]

\* runQuery, lines 377-409: the locals and the trace of a new request.
newRun(requestId, queryPrompt, queryMode, forceRepair, routeOverride, includeScreenshot) ==
  LET route == chooseRoute(queryPrompt, queryMode, routeOverride)
      responseMode == responseModeFor(queryMode, route)
  IN [NoRun EXCEPT !.requestId = requestId, !.queryPrompt = queryPrompt,
                   !.queryMode = queryMode, !.forceRepair = forceRepair,
                   !.route = route, !.responseMode = responseMode,
                   !.routeOverride = routeOverride,
                   !.includeScreenshot = includeScreenshot,
                   !.trace = [NoTrace EXCEPT !.requestId = requestId, !.mode = queryMode,
                                             !.route = route,
                                             !.responseMode = responseMode]]

enterStage(r, nextStage) ==
  [r EXCEPT !.trace.stageTimingsMs =
              IF r.currentStage # "" THEN @ \cup {r.currentStage} ELSE @,
            !.currentStage = nextStage,
            !.stageLog = Append(@, nextStage)]

\* A faulty closeStage: the open stage is left open and gets no duration.
closeStageNever(r) == r

closeStage(r) ==
  IF r.currentStage = "" THEN r
  ELSE [r EXCEPT !.trace.stageTimingsMs = @ \cup {r.currentStage},
                 !.currentStage = ""]

\* What a throw carries: a PipelineError, the fetch's AbortError, or another Error.
PipelineError(category, report) ==
  [name |-> "PipelineError", category |-> category, report |-> report]
AbortError == [name |-> "AbortError", category |-> "", report |-> <<>>]
OtherError(name) == [name |-> name, category |-> "", report |-> <<>>]

\* A faulty normalizeError: the error is passed on as it was thrown.
normalizeErrorRaw(error) == error

normalizeError(error) ==
  IF error.name = "PipelineError" THEN error
  ELSE IF error.name = "AbortError" THEN PipelineError("canceled", <<>>)
  ELSE PipelineError("model", <<>>)

\* A faulty finally block: the trace is emitted without its end time.
finallyBlockOpenEnded(r) == [closeStage(r) EXCEPT !.pc = "returned"]

\* The finally block, lines 684-692 (the React state it sets is set by Resume).
finallyBlock(r) ==
  [closeStage(r) EXCEPT !.trace.endedAt = TRUE, !.pc = "returned"]

\* The catch block, lines 649-683, and the finally block after it.
catchBlock(r, error) ==
  LET normalizedError == normalizeError(error)
  IN finallyBlock(
       [r EXCEPT !.trace.validation = normalizedError.report,
                 !.trace.errorMessage = TRUE,
                 !.trace.outcome = IF normalizedError.category = "canceled"
                                   THEN "canceled" ELSE "failed",
                 !.category = normalizedError.category])

\* Lines 645-648, and the finally block after them.
succeed(r) ==
  finallyBlock([r EXCEPT !.trace.validation = r.validationReport,
                         !.trace.outcome = "success"])

\* callGemini with the controller's signal: a fetch on an aborted signal rejects
\* at once with an AbortError; otherwise runQuery waits at pc.  The image is
\* part of the request when a screenshot is passed ("small" or "large") and it
\* is of at most MAX_PROMPT_SCREENSHOT_BYTES ("small").
callGemini(r, screenshotPngBase64, aborted, pc) ==
  LET called == [r EXCEPT !.modelCalls = @ + 1,
                          !.imageSent = Append(@, screenshotPngBase64 = "small")]
  IN IF aborted THEN catchBlock(called, AbortError)
     ELSE [called EXCEPT !.pc = pc]

\* requestInsertion(requestId, svg, ...): runQuery waits for the host's answer.
requestInsertion(r, svg) ==
  [r EXCEPT !.insertSvg = svg, !.pc = "insert_or_return"]

\* A faulty startRun: the first stage entered is route.
startRunAtRoute(r) ==
  [enterStage(r, "route") EXCEPT !.pc = "prepare_context"]

\* Lines 440-442.
startRun(r) ==
  [enterStage(r, "prepare_context") EXCEPT !.pc = "prepare_context"]

\* Lines 443-482: from the context packet to the first model call.  The call at
\* line 479 is the last read of includeScreenshot, which is dropped here.
afterContext(r, context, aborted) ==
  LET r1 == closeStage([r EXCEPT !.includeScreenshot = FALSE])
  IN IF context.screenshotError /\ r.queryMode = "vectorize"
     THEN catchBlock(r1, PipelineError("model", <<>>))
     ELSE LET r2 == closeStage(enterStage(r1, "route"))
              r3 == enterStage(r2, "model_call")
          IN callGemini(r3, IF r.includeScreenshot THEN context.screenshot ELSE "none",
                        aborted, "model_call")

\* A faulty afterValidation: the markup is inserted whatever the report says.
afterValidationInsertingAnyway(r) ==
  requestInsertion(enterStage(r, "insert_or_return"), r.validationReport[1].svg)

\* A faulty afterValidation: a report with errors starts another repair call.
afterValidationRepairingAgain(r) ==
  IF Len(r.validationReport[1].errors) > 0
  THEN callGemini(enterStage(r, "repair_if_needed"), "none", FALSE, "repair_if_needed")
  ELSE requestInsertion(enterStage(r, "insert_or_return"), r.validationReport[1].svg)

\* Lines 607-622: after the last validation of the markup branch.
afterValidation(r) ==
  IF Len(r.validationReport[1].errors) > 0
  THEN catchBlock(r, PipelineError("validation", r.validationReport))
  ELSE requestInsertion(enterStage(r, "insert_or_return"), r.validationReport[1].svg)

\* A faulty repairNeeded: a forced retry repairs whatever the report says.
repairNeededWhenForced(forceRepair, validationReport) ==
  forceRepair \/ Len(validationReport.errors) > 0

\* A faulty repairNeeded: every markup response is sent to repair.
repairAlways(forceRepair, validationReport) == TRUE

\* Should the repair pass run (line 571).
repairNeeded(forceRepair, validationReport) ==
  (forceRepair \/ Len(validationReport.errors) > 0) /\ validationReport.repairable

\* Lines 491-506: the text branch.
textBranch(r) ==
  LET r1 == closeStage(enterStage(r, "parse"))
      r2 == closeStage(enterStage(r1, "validate"))
      r3 == closeStage(enterStage(r2, "insert_or_return"))
  IN succeed(r3)

\* Lines 507-539: the structured branch, up to the insertion request.
irBranch(r, responseText) ==
  LET r1 == enterStage(r, "parse")
      parsed == parseDiagramIR(responseText)
      diagram == parsed.value
  IN IF ~parsed.ok THEN catchBlock(r1, OtherError(parsed.error))
     ELSE
       LET r2 == enterStage(closeStage(r1), "validate")
       IN IF validateDiagramIRThrows(diagram) THEN catchBlock(r2, OtherError("TypeError"))
          ELSE
            LET diagramValidation == validateDiagramIR(diagram)
            IN IF Len(diagramValidation.errors) > 0
               THEN catchBlock(r2, PipelineError("validation", <<diagramValidation>>))
               ELSE
                 LET r3 == enterStage(closeStage(r2), "insert_or_return")
                     svgValidation == validateSvg(renderDiagramIrToSvg(diagram))
                     r4 == [r3 EXCEPT !.validationReport = <<svgValidation>>]
                 IN IF Len(svgValidation.errors) > 0
                    THEN catchBlock(r4, PipelineError("validation", <<svgValidation>>))
                    ELSE requestInsertion(r4, svgValidation.svg)

\* Lines 557-585 and 607-622: the markup branch, up to the repair call or the
\* insertion request.
svgBranch(r, responseText, aborted) ==
  LET r1 == enterStage(r, "parse")
      svg == extractSvgFromResponse(responseText)
  IN IF svg = <<>> THEN catchBlock(r1, PipelineError("parse", <<>>))
     ELSE
       LET r2 == enterStage(closeStage(r1), "validate")
           r3 == closeStage([r2 EXCEPT !.validationReport = <<validateSvg(svg[1])>>])
       IN IF repairNeeded(r.forceRepair, r3.validationReport[1])
          THEN callGemini(enterStage(r3, "repair_if_needed"), "none", aborted,
                          "repair_if_needed")
          ELSE afterValidation(r3)

\* Lines 483-489 and the branch on the response shape.
afterModelCall(r, initialResponse, aborted) ==
  LET r1 == closeStage(r)
  IN IF r.responseMode = "text" THEN textBranch(r1)
     ELSE IF r.responseMode = "ir_json" THEN irBranch(r1, initialResponse)
     ELSE svgBranch(r1, initialResponse, aborted)

\* Lines 586-622: from the repair response on.
afterRepairCall(r, repairResponse) ==
  LET r1 == enterStage(closeStage([r EXCEPT !.repaired = TRUE]), "parse")
      svg == extractSvgFromResponse(repairResponse)
  IN IF svg = <<>> THEN catchBlock(r1, PipelineError("parse", <<>>))
     ELSE
       LET r2 == enterStage(closeStage(r1), "validate")
           r3 == closeStage([r2 EXCEPT !.validationReport = <<validateSvg(svg[1])>>])
       IN afterValidation(r3)

\* Lines 540-555 and 623-648: from the host's insert-result on.
afterInsertion(r, success) ==
  IF ~success THEN catchBlock(r, PipelineError("insert", <<>>))
  ELSE IF r.responseMode = "ir_json" THEN succeed(closeStage(r))
  ELSE succeed([closeStage(r) EXCEPT !.trace.repaired = <<r.repaired>>])

(***************************************************************************)
(* State.                                                                  *)
(***************************************************************************)
VARIABLES
  activeRequestRef,   \* App: <<>> or <<[requestId, aborted]>>, the descriptor and its controller
  run,                \* App: the suspended runQuery activation, NoRun when none
  diagnostics,        \* App: the emitted traces, newest first
  lastFailure,        \* App: <<>> or <<[prompt, mode]>>
  contextWaiters,     \* App: the keys of contextWaitersRef
  insertWaiters,      \* App: the keys of insertWaitersRef
  contextTimers,      \* App: request ids whose 20 s context timer is pending
  insertTimers,       \* App: request ids whose 10 s insertion timer is pending
  toHost,             \* messages posted by the UI, not yet handled by the host
  toUi,               \* messages posted by the host, not yet handled by the UI
  canceledRequests,   \* host: the set of cancellation flags
  preparing,          \* host: prepare-context messages whose handler waits for an export
  page,               \* host: the request ids of the nodes inserted on the page
  requestCount,       \* request ids handed out so far
  ledger,             \* what the activations that returned did, oldest first
  waiterLog,          \* per request id: waiter entries set, deleted and settled
  call                \* a call of a pure pipeline function: its arguments and result

vars == <<activeRequestRef, run, diagnostics, lastFailure, contextWaiters, insertWaiters,
          contextTimers, insertTimers, toHost, toUi, canceledRequests, preparing, page,
          requestCount, ledger, waiterLog, call>>

\* The state of the request pipeline: everything but call.
pipelineVars == <<activeRequestRef, run, diagnostics, lastFailure, contextWaiters,
                  insertWaiters, contextTimers, insertTimers, toHost, toUi,
                  canceledRequests, preparing, page, requestCount, ledger, waiterLog>>

uiVars == <<activeRequestRef, run, diagnostics, lastFailure, contextWaiters, insertWaiters,
            contextTimers, insertTimers, requestCount, ledger,
            waiterLog>>
hostVars == <<canceledRequests, preparing, page>>

RequestIds == 1..MaxRequests

Prompts == {"make a flowchart", "draw an icon"}

\* The settings a request may be sent under: the defaults, the defaults without
\* an API key, and each route override with the screenshot switches flipped.
Setting(apiKey, routeOverride, autoScreenshotModify, screenshotForCreateAsk) ==
  [apiKey |-> apiKey, routeOverride |-> routeOverride,
   autoScreenshotModify |-> autoScreenshotModify,
   screenshotForCreateAsk |-> screenshotForCreateAsk]

Defaults == Setting("key", "auto", TRUE, FALSE)
Settings ==
  {Defaults, Setting("", "auto", TRUE, FALSE),
   Setting("key", "direct_svg", FALSE, TRUE), Setting("key", "structured_ir", FALSE, TRUE)}

\* What the user may submit: a prompt in a mode under some settings.
Submission(prompt, mode, settings) ==
  [prompt |-> prompt, mode |-> mode, settings |-> settings]

Submissions ==
  {Submission("draw an icon", "create", Defaults),
   Submission("make a flowchart", "modify", Defaults),
   Submission("draw an icon", "ask", Defaults),
   Submission("draw an icon", "vectorize", Defaults),
   Submission("make a flowchart", "create", Setting("key", "direct_svg", FALSE, TRUE)),
   Submission("draw an icon", "ask", Setting("key", "structured_ir", FALSE, TRUE)),
   Submission("draw an icon", "create", Setting("", "auto", TRUE, FALSE))}

\* What the model may answer.
ModelResponses ==
  {ProseResponse, SvgResponse(ValidSvg), FencedSvgResponse(NoViewBoxSvg),
   SvgResponse(BrokenSvg), JsonResponse(GoodDiagram), JsonResponse(EmptyDiagram),
   JsonResponse(QuoteDiagram), JsonResponse(NullDiagram), BadJsonResponse}

NoContext ==
  [hasSelection |-> FALSE, svg |-> FALSE, screenshot |-> "none", screenshotError |-> FALSE]

\* The screenshot is "small" up to MAX_PROMPT_SCREENSHOT_BYTES and "large" above.
Context(svg, screenshot, screenshotError) ==
  [hasSelection |-> TRUE, svg |-> svg, screenshot |-> screenshot,
   screenshotError |-> screenshotError]

PrepareContextMsg(requestId, mode, includeScreenshot) ==
  [type |-> "prepare-context", requestId |-> requestId, mode |-> mode,
   includeScreenshot |-> includeScreenshot, svg |-> <<>>, route |-> ""]
InsertSvgMsg(requestId, svg, mode, route) ==
  [type |-> "insert-svg", requestId |-> requestId, mode |-> mode,
   includeScreenshot |-> FALSE, svg |-> svg, route |-> route]
CancelRequestMsg(requestId) ==
  [type |-> "cancel-request", requestId |-> requestId, mode |-> "",
   includeScreenshot |-> FALSE, svg |-> <<>>, route |-> ""]

ContextReadyMsg(requestId, context) ==
  [type |-> "context-ready", requestId |-> requestId, context |-> context,
   success |-> FALSE]
InsertResultMsg(requestId, success) ==
  [type |-> "insert-result", requestId |-> requestId, context |-> NoContext,
   success |-> success]
RequestCanceledMsg(requestId) ==
  [type |-> "request-canceled", requestId |-> requestId, context |-> NoContext,
   success |-> FALSE]

NoWaiterLog ==
  [contextSet |-> 0, contextDeleted |-> 0, contextSettled |-> 0,
   insertSet |-> 0, insertDeleted |-> 0, insertSettled |-> 0]

\* No pure function is being called.
NoCall == [fn |-> ""]

\* The pipeline before any request.
Quiet ==
  /\ activeRequestRef = <<>>
  /\ run = NoRun
  /\ diagnostics = <<>>
  /\ lastFailure = <<>>
  /\ contextWaiters = {}
  /\ insertWaiters = {}
  /\ contextTimers = {}
  /\ insertTimers = {}
  /\ toHost = <<>>
  /\ toUi = <<>>
  /\ canceledRequests = {}
  /\ preparing = <<>>
  /\ page = <<>>
  /\ requestCount = 0
  /\ ledger = <<>>
  /\ waiterLog = [id \in RequestIds |-> NoWaiterLog]

Init == Quiet /\ call = NoCall

aborted == activeRequestRef # <<>> /\ activeRequestRef[1].aborted

\* [trace, ...prev].slice(0, 12)
keepDiagnostics(traces) ==
  IF Len(traces) <= DIAGNOSTICS_KEPT THEN traces ELSE SubSeq(traces, 1, DIAGNOSTICS_KEPT)

\* A faulty lastFailureAfter: a canceled request is recorded as a failure too.
lastFailureAfterAnyError(r, before) ==
  IF r.trace.outcome = "success" THEN <<>>
  ELSE <<[prompt |-> r.queryPrompt, mode |-> r.queryMode]>>

\* lastFailure once runQuery has returned: lines 648 and 677-683.
lastFailureAfter(r, before) ==
  IF r.trace.outcome = "success" THEN <<>>
  ELSE IF r.category # "canceled"
       THEN <<[prompt |-> r.queryPrompt, mode |-> r.queryMode]>>
  ELSE before

\* A faulty guard: the active-request descriptor is not looked at.
runQueryProceedsWhileActive(apiKey, activeRef) == apiKey # ""

\* runQuery's guards, lines 369-375.
runQueryProceeds(apiKey, activeRef) ==
  /\ apiKey # ""
  /\ activeRef = <<>>

\* A faulty activeAfter: the descriptor is never cleared.
activeAfterKept(r, activeRef) == activeRef

\* activeRequestRef.current once the activation r has got as far as it can.
activeAfter(r, activeRef) == IF r.pc = "returned" THEN <<>> ELSE activeRef

(***************************************************************************)
(* Resume: the state the UI is left in when runQuery, resumed in this      *)
(* task, is suspended again or has returned as r (an r that has just      *)
(* reached the insertion posts its request).  left holds the               *)
(* descriptor, the channel to the host, the insertion waiters and timers   *)
(* and the waiter log as the task's own handler left them.                 *)
(***************************************************************************)
Left ==
  [activeRef |-> activeRequestRef, toHost |-> toHost, insertWaiters |-> insertWaiters,
   insertTimers |-> insertTimers, log |-> waiterLog]

\* What the ledger keeps of an activation that returned.
ledgerEntry(r) ==
  [requestId |-> r.requestId, queryPrompt |-> r.queryPrompt, queryMode |-> r.queryMode,
   forceRepair |-> r.forceRepair, trace |-> r.trace, stageLog |-> r.stageLog,
   modelCalls |-> r.modelCalls, category |-> r.category, canceledAt |-> r.canceledAt,
   imageSent |-> r.imageSent, routeOverride |-> r.routeOverride]

Resume(r, left) ==
  LET returned == r.pc = "returned"
      inserting == r.pc = "insert_or_return" /\ run.pc # "insert_or_return"
      id == r.requestId
  IN /\ run' = IF returned THEN NoRun ELSE r
     /\ ledger' = IF returned THEN Append(ledger, ledgerEntry(r)) ELSE ledger
     /\ diagnostics' = IF returned THEN keepDiagnostics(<<r.trace>> \o diagnostics)
                       ELSE diagnostics
     /\ lastFailure' = IF returned THEN lastFailureAfter(r, lastFailure) ELSE lastFailure
     /\ activeRequestRef' = activeAfter(r, left.activeRef)
     /\ insertWaiters' = IF inserting THEN left.insertWaiters \cup {id}
                         ELSE left.insertWaiters
     /\ insertTimers' = IF inserting THEN left.insertTimers \cup {id}
                        ELSE left.insertTimers
     /\ toHost' = IF inserting
                  THEN Append(left.toHost,
                              InsertSvgMsg(id, r.insertSvg, r.queryMode, r.route))
                  ELSE left.toHost
     /\ waiterLog' = IF inserting THEN [left.log EXCEPT ![id].insertSet = @ + 1]
                     ELSE left.log

\* The UI handled a task that touches nothing of the pipeline.
UiUntouched ==
  UNCHANGED <<activeRequestRef, run, diagnostics, lastFailure, contextWaiters,
              insertWaiters, contextTimers, insertTimers, toHost, ledger, waiterLog>>

(***************************************************************************)
(* The user.                                                               *)
(***************************************************************************)
\* runQuery(queryPrompt, queryMode, forceRepair) under the current settings.
RunQuery(queryPrompt, queryMode, forceRepair, apiKey, routeOverride, includeScreenshot) ==
  IF runQueryProceeds(apiKey, activeRequestRef)
  THEN LET requestId == requestCount + 1
           r == startRun(newRun(requestId, queryPrompt, queryMode, forceRepair,
                                routeOverride, includeScreenshot))
       IN /\ requestCount < MaxRequests
          /\ requestCount' = requestId
          /\ activeRequestRef' = <<[requestId |-> requestId, aborted |-> FALSE]>>
          /\ lastFailure' = <<>>
          /\ run' = r
          /\ contextWaiters' = contextWaiters \cup {requestId}
          /\ contextTimers' = contextTimers \cup {requestId}
          /\ waiterLog' = [waiterLog EXCEPT ![requestId].contextSet = @ + 1]
          /\ toHost' = Append(toHost,
                              PrepareContextMsg(requestId, queryMode, includeScreenshot))
          /\ UNCHANGED <<diagnostics, insertWaiters, insertTimers, toUi, ledger>>
          /\ UNCHANGED <<hostVars, call>>
  ELSE /\ UiUntouched
       /\ UNCHANGED <<toUi, requestCount>>
       /\ UNCHANGED <<hostVars, call>>

\* submitPrompt: the Send button or Enter (always with forceRepair = false).  Its
\* own isLoading test is true only while a descriptor is set, so runQuery's guard
\* decides.
SubmitPrompt ==
  \E s \in Submissions :
    RunQuery(s.prompt, s.mode, FALSE, s.settings.apiKey, s.settings.routeOverride,
             includeScreenshotFor(s.mode, s.settings.autoScreenshotModify,
                                  s.settings.screenshotForCreateAsk))

\* retryFailure(forceRepair): the Retry and Retry-with-repair buttons.
RetryFailure ==
  \E forceRepair \in BOOLEAN, settings \in Settings :
    /\ lastFailure # <<>>
    /\ RunQuery(lastFailure[1].prompt, lastFailure[1].mode, forceRepair,
                settings.apiKey, settings.routeOverride,
                includeScreenshotFor(lastFailure[1].mode, settings.autoScreenshotModify,
                                     settings.screenshotForCreateAsk))

\* cancelActiveRequest: abort the controller, tell the host.  A pending fetch
\* rejects with an AbortError, which resumes runQuery in its catch block.
CancelActiveRequest ==
  /\ activeRequestRef # <<>>
  /\ run.cancelClicks < MaxCancels
  /\ LET active == activeRequestRef[1]
         noted == [run EXCEPT !.cancelClicks = @ + 1,
                              !.canceledAt = IF @ = <<>> THEN <<run.pc>> ELSE @]
         r == IF run.pc \in {"model_call", "repair_if_needed"}
              THEN catchBlock(noted, AbortError)
              ELSE noted
     IN Resume(r, [Left EXCEPT
                     !.activeRef = <<[active EXCEPT !.aborted = TRUE]>>,
                     !.toHost = Append(toHost, CancelRequestMsg(active.requestId))])
  /\ UNCHANGED <<contextWaiters, contextTimers, toUi, requestCount>>
  /\ UNCHANGED <<hostVars, call>>

(***************************************************************************)
(* The model-call collaborator.                                            *)
(***************************************************************************)
ModelReturns ==
  /\ run.pc = "model_call"
  /\ \E response \in ModelResponses :
       Resume(afterModelCall(run, response, aborted), Left)
  /\ UNCHANGED <<contextWaiters, contextTimers, toUi, requestCount>>
  /\ UNCHANGED <<hostVars, call>>

RepairReturns ==
  /\ run.pc = "repair_if_needed"
  /\ \E response \in ModelResponses :
       Resume(afterRepairCall(run, response), Left)
  /\ UNCHANGED <<contextWaiters, contextTimers, toUi, requestCount>>
  /\ UNCHANGED <<hostVars, call>>

\* callGemini throws: the response is not ok, or carries no text.
ModelFails ==
  /\ run.pc \in {"model_call", "repair_if_needed"}
  /\ Resume(catchBlock(run, OtherError("Error")), Left)
  /\ UNCHANGED <<contextWaiters, contextTimers, toUi, requestCount>>
  /\ UNCHANGED <<hostVars, call>>

(***************************************************************************)
(* Timers of requestContext and requestInsertion.                          *)
(***************************************************************************)
ContextTimeout ==
  \E id \in contextTimers :
    /\ contextTimers' = contextTimers \ {id}
    /\ contextWaiters' = contextWaiters \ {id}
    /\ Resume(catchBlock(run, PipelineError("model", <<>>)),
              [Left EXCEPT !.log[id].contextDeleted = @ + 1,
                           !.log[id].contextSettled = @ + 1])
    /\ UNCHANGED <<toUi, requestCount>>
    /\ UNCHANGED <<hostVars, call>>

InsertTimeout ==
  \E id \in insertTimers :
    /\ Resume(catchBlock(run, PipelineError("insert", <<>>)),
              [Left EXCEPT !.insertTimers = @ \ {id},
                           !.insertWaiters = @ \ {id},
                           !.log[id].insertDeleted = @ + 1,
                           !.log[id].insertSettled = @ + 1])
    /\ UNCHANGED <<contextWaiters, contextTimers, toUi, requestCount>>
    /\ UNCHANGED <<hostVars, call>>

(***************************************************************************)
(* handleMessage: the UI's handler of the host's messages.                 *)
(***************************************************************************)
\* A faulty lookup: every message finds a waiter.
hasWaiterAlways(waiters, requestId) == TRUE

\* waiters.get(message.requestId) found an entry.
hasWaiter(waiters, requestId) == requestId \in waiters

UiContextReady ==
  /\ toUi # <<>>
  /\ Head(toUi).type = "context-ready"
  /\ toUi' = Tail(toUi)
  /\ LET message == Head(toUi)
         id == message.requestId
     IN IF ~hasWaiter(contextWaiters, id)
        THEN UiUntouched
        ELSE /\ contextTimers' = contextTimers \ {id}
             /\ contextWaiters' = contextWaiters \ {id}
             /\ Resume(afterContext(run, message.context, aborted),
                       [Left EXCEPT !.log[id].contextDeleted = @ + 1,
                                    !.log[id].contextSettled = @ + 1])
  /\ UNCHANGED requestCount
  /\ UNCHANGED <<hostVars, call>>

UiInsertResult ==
  /\ toUi # <<>>
  /\ Head(toUi).type = "insert-result"
  /\ toUi' = Tail(toUi)
  /\ LET message == Head(toUi)
         id == message.requestId
     IN IF ~hasWaiter(insertWaiters, id)
        THEN UiUntouched
        ELSE /\ Resume(afterInsertion(run, message.success),
                       [Left EXCEPT !.insertTimers = @ \ {id},
                                    !.insertWaiters = @ \ {id},
                                    !.log[id].insertDeleted = @ + 1,
                                    !.log[id].insertSettled = @ + 1])
             /\ UNCHANGED <<contextWaiters, contextTimers>>
  /\ UNCHANGED requestCount
  /\ UNCHANGED <<hostVars, call>>

UiRequestCanceled ==
  /\ toUi # <<>>
  /\ Head(toUi).type = "request-canceled"
  /\ toUi' = Tail(toUi)
  /\ LET id == Head(toUi).requestId
         hadContext == hasWaiter(contextWaiters, id)
         hadInsert == hasWaiter(insertWaiters, id)
     IN IF ~hadContext /\ ~hadInsert
        THEN UiUntouched
        ELSE /\ contextTimers' = contextTimers \ {id}
             /\ contextWaiters' = contextWaiters \ {id}
             /\ Resume(catchBlock(run, PipelineError("canceled", <<>>)),
                       [Left EXCEPT
                          !.insertTimers = @ \ {id},
                          !.insertWaiters = @ \ {id},
                          !.log[id].contextDeleted = IF hadContext THEN @ + 1 ELSE @,
                          !.log[id].contextSettled = IF hadContext THEN @ + 1 ELSE @,
                          !.log[id].insertDeleted = IF hadInsert THEN @ + 1 ELSE @,
                          !.log[id].insertSettled = IF hadInsert THEN @ + 1 ELSE @])
  /\ UNCHANGED requestCount
  /\ UNCHANGED <<hostVars, call>>

(***************************************************************************)
(* The host: figma.ui.onmessage, one message at a time in posting order.   *)
(***************************************************************************)
\* A faulty flag check: the normal answer is given whatever the flags are.
answerRegardless(requestId, flags, reply) == <<reply, flags>>

\* The flag check both handlers make before answering; reply is the normal answer.
\* The result is <<message to post, flags left>>.
answerUnlessCanceled(requestId, flags, reply) ==
  IF requestId \in flags
  THEN <<RequestCanceledMsg(requestId), flags \ {requestId}>>
  ELSE <<reply, flags>>

\* handlePrepareContext reaches an await when there is a selection to export.
waitsForExport(message, primary) ==
  primary /\ (message.mode # "vectorize" \/ message.includeScreenshot)

\* The context packet built from the exports: exportSvg gave svg (or failed), and
\* exportPngBase64 gave a screenshot ("small", "large") or its error ("error").
builtContext(message, svg, shot) ==
  Context(message.mode # "vectorize" /\ svg,
          IF message.includeScreenshot /\ shot # "error" THEN shot ELSE "none",
          message.includeScreenshot /\ shot = "error")

\* handlePrepareContext up to its first await, or to its end when nothing is selected.
HostPrepareContext ==
  /\ toHost # <<>>
  /\ Head(toHost).type = "prepare-context"
  /\ toHost' = Tail(toHost)
  /\ \E primary \in BOOLEAN :
       LET message == Head(toHost)
       IN IF waitsForExport(message, primary)
          THEN /\ preparing' = Append(preparing, message)
               /\ UNCHANGED <<toUi, canceledRequests>>
          ELSE LET context == IF primary THEN Context(FALSE, "none", FALSE)
                              ELSE NoContext
                   answer == answerUnlessCanceled(message.requestId, canceledRequests,
                                                  ContextReadyMsg(message.requestId,
                                                                  context))
               IN /\ toUi' = Append(toUi, answer[1])
                  /\ canceledRequests' = answer[2]
                  /\ UNCHANGED preparing
  /\ UNCHANGED page
  /\ UNCHANGED <<uiVars, call>>

\* The sequence s without its i-th element.
without(s, i) == SubSeq(s, 1, i - 1) \o SubSeq(s, i + 1, Len(s))

\* handlePrepareContext from its last await to its end.
HostContextExported ==
  \E i \in DOMAIN preparing, svg \in BOOLEAN, shot \in {"small", "large", "error"} :
    LET message == preparing[i]
        answer == answerUnlessCanceled(message.requestId, canceledRequests,
                                       ContextReadyMsg(message.requestId,
                                                       builtContext(message, svg, shot)))
    IN /\ preparing' = without(preparing, i)
       /\ toUi' = Append(toUi, answer[1])
       /\ canceledRequests' = answer[2]
       /\ UNCHANGED <<toHost, page>>
       /\ UNCHANGED <<uiVars, call>>

\* handleInsertSvg; created is whether figma.createNodeFromSvg accepts the markup.
HostInsertSvg ==
  /\ toHost # <<>>
  /\ Head(toHost).type = "insert-svg"
  /\ toHost' = Tail(toHost)
  /\ \E created \in BOOLEAN :
       LET message == Head(toHost)
           answer == answerUnlessCanceled(message.requestId, canceledRequests,
                                          InsertResultMsg(message.requestId, created))
       IN /\ toUi' = Append(toUi, answer[1])
          /\ canceledRequests' = answer[2]
          /\ page' = IF answer[1].type = "insert-result" /\ created
                     THEN Append(page, message.requestId) ELSE page
  /\ UNCHANGED preparing
  /\ UNCHANGED <<uiVars, call>>

\* A faulty cancel-request branch: the flag is set and nothing is answered.
HostCancelRequestSilently ==
  /\ toHost # <<>>
  /\ Head(toHost).type = "cancel-request"
  /\ toHost' = Tail(toHost)
  /\ canceledRequests' = canceledRequests \cup {Head(toHost).requestId}
  /\ UNCHANGED <<toUi, preparing, page>>
  /\ UNCHANGED <<uiVars, call>>

\* The cancel-request branch of figma.ui.onmessage.
HostCancelRequest ==
  /\ toHost # <<>>
  /\ Head(toHost).type = "cancel-request"
  /\ toHost' = Tail(toHost)
  /\ canceledRequests' = canceledRequests \cup {Head(toHost).requestId}
  /\ toUi' = Append(toUi, RequestCanceledMsg(Head(toHost).requestId))
  /\ UNCHANGED <<preparing, page>>
  /\ UNCHANGED <<uiVars, call>>

Next == SubmitPrompt \/ RetryFailure \/ CancelActiveRequest \/ ModelReturns
          \/ RepairReturns \/ ModelFails \/ ContextTimeout \/ InsertTimeout
          \/ UiContextReady \/ UiInsertResult \/ UiRequestCanceled
          \/ HostPrepareContext \/ HostContextExported \/ HostInsertSvg
          \/ HostCancelRequest

Spec == Init /\ [][Next]_vars

(***************************************************************************)
(* FairSpec: the pipeline with its timers firing (a setTimeout callback    *)
(* runs once it is due) and with every model call returning or failing.    *)
(* Nothing is assumed of the host: it may leave any message unanswered for *)
(* ever.  A request is followed by another when the host left its          *)
(* prepare-context unanswered or answered it with a failed export, so that *)
(* the second request runs among what the first left behind.               *)
(***************************************************************************)
SubmitFollowUp ==
  /\ ledger # <<>> => /\ ledger[1].stageLog = <<"prepare_context">>
                      /\ ledger[1].category = "model"
  /\ SubmitPrompt

FairNext == SubmitFollowUp \/ CancelActiveRequest \/ ModelReturns
              \/ RepairReturns \/ ModelFails \/ ContextTimeout \/ InsertTimeout
              \/ UiContextReady \/ UiInsertResult \/ UiRequestCanceled
              \/ HostPrepareContext \/ HostContextExported \/ HostInsertSvg
              \/ HostCancelRequest

FairSpec ==
  /\ Init /\ [][FairNext]_vars
  /\ WF_vars(ContextTimeout)
  /\ WF_vars(InsertTimeout)
  /\ WF_vars(ModelReturns \/ RepairReturns \/ ModelFails)

(***************************************************************************)
(* HostSpec: the host on its own, sent any request messages in any order   *)
(* (its handlers are written for any UI, and are the only code that reads  *)
(* the cancellation flags).  The answers stay in toUi, so the messages     *)
(* sent so far are those waiting, those being prepared and those answered. *)
(***************************************************************************)
HostRequests ==
  UNION {{PrepareContextMsg(id, "create", TRUE), PrepareContextMsg(id, "vectorize", TRUE),
          InsertSvgMsg(id, <<ValidSvg>>, "create", "direct_svg"), CancelRequestMsg(id)}
         : id \in RequestIds}

EnvPost ==
  /\ Len(toHost) + Len(preparing) + Len(toUi) < MaxPosted
  /\ \E message \in HostRequests : toHost' = Append(toHost, message)
  /\ UNCHANGED <<toUi, canceledRequests, preparing, page>>
  /\ UNCHANGED <<uiVars, call>>

HostNext == EnvPost \/ HostPrepareContext \/ HostContextExported
              \/ HostInsertSvg \/ HostCancelRequest

HostSpec == Init /\ [][HostNext]_vars

(***************************************************************************)
(* RouteSpec: chooseRoute and isStructuredTaskPrompt, called with any of    *)
(* the prompts below in any mode under any override.                       *)
(***************************************************************************)
RoutePrompts ==
  {"make a flowchart", "Make a FLOWCHART", "flowchart of a circuit",
   "Flowchart of a CIRCUIT", "logic gate schematic", "draw a process map",
   "workflow diagram", "Rotate the Block Diagram", "DETAILED workflow",
   "reflow the symbols", "draw an icon"}

RouteCall(fn, prompt, mode, routeOverride) ==
  [fn |-> fn, prompt |-> prompt, mode |-> mode, routeOverride |-> routeOverride,
   result |-> <<>>]

RouteCalls ==
  {RouteCall("chooseRoute", prompt, mode, routeOverride) :
     prompt \in RoutePrompts, mode \in Modes, routeOverride \in RouteOverrides}
  \cup {RouteCall("isStructuredTaskPrompt", prompt, mode, "auto") :
          prompt \in RoutePrompts, mode \in Modes}

RouteInit == Quiet /\ call \in RouteCalls

CallChooseRoute ==
  /\ call.fn = "chooseRoute"
  /\ call.result = <<>>
  /\ call' = [call EXCEPT
                !.result = <<chooseRoute(call.prompt, call.mode, call.routeOverride)>>]
  /\ UNCHANGED pipelineVars

CallIsStructuredTaskPrompt ==
  /\ call.fn = "isStructuredTaskPrompt"
  /\ call.result = <<>>
  /\ call' = [call EXCEPT !.result = <<isStructuredTaskPrompt(call.prompt, call.mode)>>]
  /\ UNCHANGED pipelineVars

RouteNext == CallChooseRoute \/ CallIsStructuredTaskPrompt

RouteSpec == RouteInit /\ [][RouteNext]_vars

(***************************************************************************)
(* PromptSpec: buildPromptText, called in any mode on any route with any   *)
(* of the context packets below.                                           *)
(***************************************************************************)
PromptSvgs ==
  {<<>>, <<Text("svg", 41)>>, <<Text("svg", MAX_PROMPT_SVG_CHARS)>>,
   <<Text("svg", MAX_PROMPT_SVG_CHARS + 1)>>}

PromptContexts ==
  {PromptContext(hasSelection, metadata, svg, screenshot) :
     hasSelection \in {TRUE}, metadata \in BOOLEAN, svg \in PromptSvgs,
     screenshot \in {<<>>, <<1000>>}}
  \cup {PromptContext(FALSE, FALSE, <<>>, <<>>)}

PromptCall(userPrompt, mode, route, context, screenshotIncluded) ==
  [fn |-> "buildPromptText", userPrompt |-> userPrompt, mode |-> mode, route |-> route,
   context |-> context, screenshotIncluded |-> screenshotIncluded, result |-> <<>>]

PromptCalls ==
  {PromptCall("Modify this", mode, route, context, screenshotIncluded) :
     mode \in Modes, route \in Routes, context \in PromptContexts,
     screenshotIncluded \in BOOLEAN}

PromptInit == Quiet /\ call \in PromptCalls

CallBuildPromptText ==
  /\ call.fn = "buildPromptText"
  /\ call.result = <<>>
  /\ call' = [call EXCEPT
                !.result = <<buildPromptText(call.userPrompt, call.mode, call.route,
                                             call.context, call.screenshotIncluded)>>]
  /\ UNCHANGED pipelineVars

PromptNext == CallBuildPromptText

PromptSpec == PromptInit /\ [][PromptNext]_vars

(***************************************************************************)
(* EmbedSpec: the functions that embed a text in a prompt, truncate itself *)
(* and its two callers, on texts below, at and above the budgets.          *)
(***************************************************************************)
TruncateCall(value, maxChars) ==
  [fn |-> "truncate", value |-> value, maxChars |-> maxChars, result |-> <<>>]

TruncateCalls ==
  {TruncateCall(Text("value", length), maxChars) :
     length \in {0, 1, 179999, 180000, 180001, 400000},
     maxChars \in {MAX_PROMPT_SVG_CHARS, 180000}}

RepairCall(originalPrompt, originalResponse, validationErrors) ==
  [fn |-> "buildRepairPrompt", originalPrompt |-> originalPrompt,
   originalResponse |-> originalResponse, validationErrors |-> validationErrors,
   result |-> <<>>]

RepairCalls ==
  {RepairCall("Create a poster", Text("response", length), validationErrors) :
     length \in {0, 500, MAX_PROMPT_SVG_CHARS + 1, 180000, 180001, 400000},
     validationErrors \in
       {<<Err("SVG XML parse error.", <<>>)>>,
        <<Err("Root element must be <svg>.", <<>>),
          Err("Missing required viewBox attribute on <svg>.", <<>>)>>}}

EmbedInit == Quiet /\ call \in PromptCalls \cup RepairCalls \cup TruncateCalls

CallTruncate ==
  /\ call.fn = "truncate"
  /\ call.result = <<>>
  /\ call' = [call EXCEPT !.result = <<truncate(call.value, call.maxChars)>>]
  /\ UNCHANGED pipelineVars

CallBuildRepairPrompt ==
  /\ call.fn = "buildRepairPrompt"
  /\ call.result = <<>>
  /\ call' = [call EXCEPT
                !.result = <<buildRepairPrompt(call.originalPrompt, call.originalResponse,
                                               call.validationErrors)>>]
  /\ UNCHANGED pipelineVars

EmbedNext ==
  \/ CallTruncate
  \/ CallBuildPromptText
  \/ CallBuildRepairPrompt

EmbedSpec == EmbedInit /\ [][EmbedNext]_vars

(***************************************************************************)
(* ValidatorSpec: validateSvg and validateDiagramIR, each called on any of *)
(* the markups and descriptions below.                                     *)
(***************************************************************************)
AttrLists ==
  {<<>>,
   <<Attr("onclick", "alert(1)")>>,
   <<Attr("onClick", "alert(1)")>>,
   <<Attr("href", "http://x")>>,
   <<Attr("xlink:href", "HTTPS://x")>>,
   <<Attr("HREF", "https://x")>>,
   <<Attr("href", "#a")>>,
   <<Attr("fill", "http://x")>>,
   <<Attr("onload", "alert(1)"), Attr("href", "https://x")>>}

MarkupElements ==
  {Elem(tag, <<>>) : tag \in {"script", "foreignObject", "foreignobject", "iframe",
                              "object", "embed"}}
  \cup {Elem("rect", attrs) : attrs \in AttrLists}

\* Sequences of at most two elements of S.
UpToTwo(S) == {<<>>} \cup {<<a>> : a \in S} \cup {<<a, b>> : a \in S, b \in S}

\* Markup that parses.  Element counts are just below, at and above
\* MAX_SVG_NODE_COUNT.
ParsableMarkups ==
  {doc \in [empty : {FALSE}, long : BOOLEAN, wellFormed : {TRUE},
            rootTag : {"svg", "SVG", "html", "script"},
            viewBox : BOOLEAN, width : BOOLEAN, height : BOOLEAN,
            rootAttrs : {<<>>, <<Attr("onload", "alert(1)")>>},
            elements : UpToTwo(MarkupElements),
            extra : {0, MAX_SVG_NODE_COUNT - 1, MAX_SVG_NODE_COUNT}] :
     Len(doc.elements) = 2
       => doc.rootTag = "svg" /\ ~doc.long /\ doc.rootAttrs = <<>> /\ doc.extra = 0}

\* Markup that does not parse: the empty string, and text that is not XML.
UnparsableMarkups ==
  {[BrokenSvg EXCEPT !.empty = empty, !.long = long, !.rootTag = ""] :
     empty \in BOOLEAN, long \in BOOLEAN} \ {[BrokenSvg EXCEPT !.empty = TRUE, !.long = TRUE,
                                                              !.rootTag = ""]}

MarkupCall(svgInput) == [fn |-> "validateSvg", svgInput |-> svgInput, result |-> <<>>]

MarkupCalls == {MarkupCall(doc) : doc \in ParsableMarkups \cup UnparsableMarkups}

\* Nodes: two boxes that overlap, one apart from both, one of width 0 and one
\* without a width, each under an empty id and under two ids.
DiagramNodes ==
  LET boxes == {Node("", 100, 100, 100, 50), Node("", 150, 120, 100, 50),
                Node("", 300, 100, 100, 50), Node("", 10, 300, 0, 50),
                WithoutWidth(Node("", 10, 400, 0, 50))}
  IN {[box EXCEPT !.id = id, !.label = id] : box \in boxes, id \in {"", "1", "2"}}

DiagramEdges ==
  {Edge("e1", "1", "2"), Edge("e1", "1", "3"), Edge("e1", "", "2")}

\* A description of 101 nodes, one more than the readability threshold.
LargeDiagram(kind) ==
  Diagram(kind, 500, 500, [i \in 1..101 |-> Node(ToString(i), 10, 10, 100, 50)], <<>>, "")

DiagramCanvases ==
  {<<>>,
   <<[width |-> <<500>>, height |-> <<500>>, padding |-> <<>>]>>,
   <<[width |-> <<0>>, height |-> <<500>>, padding |-> <<>>]>>,
   <<[width |-> <<>>, height |-> <<>>, padding |-> <<>>]>>}

Diagrams ==
  {[isNull |-> FALSE, kind |-> kind, canvas |-> canvas, nodes |-> nodes,
    edges |-> edges, styles |-> NoStyles] :
     kind \in {"diagram", "chart"}, canvas \in DiagramCanvases,
     nodes \in {<<>>} \cup {<<list>> : list \in UpToTwo(DiagramNodes)},
     edges \in {<<>>, <<(<<>>)>>} \cup {<<(<<edge>>)>> : edge \in DiagramEdges}}
  \cup {LargeDiagram("diagram"), LargeDiagram("chart"), NullDiagram}

DiagramCall(diagram) ==
  [fn |-> "validateDiagramIR", diagram |-> diagram, result |-> <<>>, thrown |-> ""]

DiagramCalls == {DiagramCall(diagram) : diagram \in Diagrams}

ValidatorInit == Quiet /\ call \in MarkupCalls \cup DiagramCalls

CallValidateSvg ==
  /\ call.fn = "validateSvg"
  /\ call.result = <<>>
  /\ call' = [call EXCEPT !.result = <<validateSvg(call.svgInput)>>]
  /\ UNCHANGED pipelineVars

CallValidateDiagramIR ==
  /\ call.fn = "validateDiagramIR"
  /\ call.result = <<>>
  /\ call.thrown = ""
  /\ call' = IF validateDiagramIRThrows(call.diagram)
             THEN [call EXCEPT !.thrown = "TypeError"]
             ELSE [call EXCEPT !.result = <<validateDiagramIR(call.diagram)>>]
  /\ UNCHANGED pipelineVars

ValidatorNext ==
  \/ CallValidateSvg
  \/ CallValidateDiagramIR

ValidatorSpec == ValidatorInit /\ [][ValidatorNext]_vars

(***************************************************************************)
(* RenderSpec: renderDiagramIrToSvg, called as runQuery calls it, on any   *)
(* of the descriptions below that validateDiagramIR accepts.               *)
(***************************************************************************)
RenderNodes ==
  {[Node(id, x, 10, 100, 50) EXCEPT !.kind = kind, !.label = label] :
     id \in {"1"}, x \in {10}, kind \in {"block", "text"},
     label \in {"A", "\"<", "A & B"}}
  \cup {Node("2", 200, 10, 100, 50)}

RenderEdges ==
  {<<>>, <<Edge("e1", "1", "2")>>, <<[Edge("e1", "1", "2") EXCEPT !.label = "A & B"]>>}

RenderStyles ==
  [stroke : {"", "#ff0000", "\"<"}, fill : {"", "\"<"}, textColor : {"", "#ff0000"},
   strokeWidth : {<<>>, <<0>>, <<3>>}, fontSize : {<<>>, <<0>>, <<18>>}]

RenderDiagrams ==
  {diagram \in
     {[isNull |-> FALSE, kind |-> "diagram",
       canvas |-> <<[width |-> <<500>>, height |-> <<500>>, padding |-> padding]>>,
       nodes |-> <<nodes>>, edges |-> <<edges>>, styles |-> styles] :
        padding \in {<<>>, <<0>>, <<40>>},
        nodes \in {<<a>> : a \in RenderNodes}
                  \cup {<<a, Node("2", 200, 10, 100, 50)>> : a \in RenderNodes \ {Node("2", 200, 10, 100, 50)}},
        edges \in RenderEdges, styles \in RenderStyles} :
     validateDiagramIR(diagram).errors = <<>>}

RenderCall(diagram) ==
  [fn |-> "renderDiagramIrToSvg", diagram |-> diagram, result |-> <<>>]

RenderCalls == {RenderCall(diagram) : diagram \in RenderDiagrams}

RenderInit == Quiet /\ call \in RenderCalls

CallRenderDiagramIrToSvg ==
  /\ call.fn = "renderDiagramIrToSvg"
  /\ call.result = <<>>
  /\ call' = [call EXCEPT !.result = <<renderDiagramIrToSvg(call.diagram)>>]
  /\ UNCHANGED pipelineVars

RenderNext == CallRenderDiagramIrToSvg

RenderSpec == RenderInit /\ [][RenderNext]_vars

(***************************************************************************)
(* RequestSpec: the first model request of runQuery, for any mode, route   *)
(* and screenshot setting and any context packet the host can answer with: *)
(* no screenshot (nothing selected, not asked for, or the export failed),  *)
(* or one of at most maxScreenshotBytes, below, at or above callGemini's   *)
(* own limit.                                                              *)
(***************************************************************************)
RequestContexts ==
  {PromptContext(TRUE, TRUE, svg, screenshot) :
     svg \in {<<>>, <<Text("svg", 41)>>},
     screenshot \in {<<>>, <<1000>>, <<400000>>, <<400003>>, <<400004>>, <<1000000>>}}
  \cup {PromptContext(FALSE, FALSE, <<>>, <<>>)}

RequestCall(queryPrompt, queryMode, route, context, includeScreenshot) ==
  [fn |-> "firstModelRequest", queryPrompt |-> queryPrompt, queryMode |-> queryMode,
   route |-> route, context |-> context, includeScreenshot |-> includeScreenshot,
   result |-> <<>>]

RequestCalls ==
  {RequestCall("Modify this", mode, route, context, includeScreenshot) :
     mode \in Modes, route \in Routes, context \in RequestContexts,
     includeScreenshot \in BOOLEAN}

RequestInit == Quiet /\ call \in RequestCalls

CallFirstModelRequest ==
  /\ call.fn = "firstModelRequest"
  /\ call.result = <<>>
  /\ call' = [call EXCEPT
                !.result = <<firstModelRequest(call.queryPrompt, call.queryMode, call.route,
                                               call.context, call.includeScreenshot)>>]
  /\ UNCHANGED pipelineVars

RequestNext == CallFirstModelRequest

RequestSpec == RequestInit /\ [][RequestNext]_vars

(***************************************************************************)
(* Properties.  Activations are the runQuery activations so far: those     *)
(* that returned (the ledger) and the one in flight.                       *)
(***************************************************************************)
Activations == Range(ledger) \cup (IF run = NoRun THEN {} ELSE {ledgerEntry(run)})

Count(s, x) == Cardinality({i \in DOMAIN s : s[i] = x})

EndsWith(s, tail) ==
  Len(s) >= Len(tail) /\ SubSeq(s, Len(s) - Len(tail) + 1, Len(s)) = tail

\* C1: in every request the repair_if_needed stage is entered at most once and
\* at most two model calls are made, the second one being the repair call; a
\* request whose last stage is the validation of the repaired markup (that
\* validation found errors) has ended as failed with category validation.
C1_RepairAtMostOnce ==
  \A a \in Activations :
    /\ Count(a.stageLog, "repair_if_needed") <= 1
    /\ a.modelCalls <= 1 + Count(a.stageLog, "repair_if_needed")
    /\ EndsWith(a.stageLog, <<"repair_if_needed", "parse", "validate">>)
         => /\ a.trace.outcome = "failed"
            /\ a.category = "validation"
            /\ a.trace.endedAt
            /\ a.modelCalls = 2

\* A request was repaired once and failed validation again.
C1_Witness ==
  \E a \in Range(ledger) :
    /\ EndsWith(a.stageLog, <<"repair_if_needed", "parse", "validate">>)
    /\ a.modelCalls = 2
    /\ a.trace.outcome = "failed"

\* The activation was repaired and its repaired markup failed validation: both
\* model responses held markup, and both markups were invalid.
RepairedInVain(a) == EndsWith(a.stageLog, <<"repair_if_needed", "parse", "validate">>)

\* C2: when the markup of the initial call and the markup of the repair call are
\* both invalid, the emitted trace has repaired = true, the outcome is failed,
\* the category is validation and there was exactly one repair.
C2_RepairedTraceOnSecondFailure ==
  \A a \in Range(ledger) :
    RepairedInVain(a)
      => /\ a.trace.repaired = <<TRUE>>
         /\ a.trace.outcome = "failed"
         /\ a.category = "validation"
         /\ Count(a.stageLog, "repair_if_needed") = 1

\* C3: a repair call is in flight only on the markup response shape (route
\* direct_svg, mode not ask), with a report marked repairable that has errors
\* or with a forced repair; on the text and structured shapes at most one model
\* call is made, none of them a repair, and a request that fails validation
\* there has ended as failed.
C3_RepairOnlyOnMarkup ==
  /\ \A a \in Activations :
       Count(a.stageLog, "repair_if_needed") > 0
         => /\ a.trace.responseMode = "svg"
            /\ a.trace.route = "direct_svg"
            /\ a.queryMode # "ask"
  /\ run.pc = "repair_if_needed"
       => /\ run.validationReport # <<>>
          /\ run.validationReport[1].repairable
          /\ run.forceRepair \/ Len(run.validationReport[1].errors) > 0
  /\ \A a \in Activations :
       a.trace.responseMode \in {"text", "ir_json"}
         => /\ a.modelCalls <= 1
            /\ Count(a.stageLog, "model_call") = a.modelCalls
            /\ a.category = "validation"
                 => a.trace.outcome = "failed" /\ a.trace.endedAt /\ a.modelCalls = 1

\* A repair call is in flight after a structured request failed validation.
C3_Witness ==
  /\ run.pc = "repair_if_needed"
  /\ \E a \in Range(ledger) :
       a.trace.responseMode = "ir_json" /\ a.category = "validation" /\ a.modelCalls = 1

\* The state is one in which runQuery has no activation.
Idle == activeRequestRef = <<>>

C4_Step ==
  /\ (~Idle /\ (SubmitPrompt \/ RetryFailure)) => UNCHANGED vars
  /\ requestCount' # requestCount => Idle /\ run = NoRun /\ ~Idle'
  /\ Len(ledger') # Len(ledger) => Idle'

\* C4: at most one request is in flight: a runQuery called while the descriptor
\* is set changes nothing (no trace, no host message, no model call), a request
\* id is handed out only when no request is in flight, and the descriptor is
\* cleared whenever an activation returns.
C4_OneInFlight ==
  /\ [](Idle <=> run = NoRun)
  /\ [](requestCount - Len(ledger) = IF Idle THEN 0 ELSE 1)
  /\ [][C4_Step]_vars

\* A second request was accepted after the first one failed, and is in flight.
C4_Witness ==
  /\ requestCount = 2
  /\ ~Idle
  /\ Len(ledger) = 1
  /\ ledger[1].trace.outcome = "failed"

\* handleMessage took the message at the head of toUi.
TakesMessage == toUi # <<>> /\ toUi' = Tail(toUi)

\* The message is one handleMessage has a waiter for.
Awaited(message) ==
  \/ message.type = "context-ready" /\ message.requestId \in contextWaiters
  \/ message.type = "insert-result" /\ message.requestId \in insertWaiters
  \/ message.type = "request-canceled"
       /\ message.requestId \in contextWaiters \cup insertWaiters

C5_Waiters ==
  \A id \in RequestIds :
    LET log == waiterLog[id]
    IN /\ log.contextSet = (IF id <= requestCount THEN 1 ELSE 0)
       /\ log.insertSet <= 1
       /\ log.contextDeleted = log.contextSet - (IF id \in contextWaiters THEN 1 ELSE 0)
       /\ log.insertDeleted = log.insertSet - (IF id \in insertWaiters THEN 1 ELSE 0)
       /\ log.contextSettled = log.contextDeleted
       /\ log.insertSettled = log.insertDeleted
       /\ id \in contextWaiters \cup insertWaiters => run.requestId = id
       /\ (id \in contextWaiters) = (id \in contextTimers)
       /\ (id \in insertWaiters) = (id \in insertTimers)

C5_Step ==
  /\ \A id \in RequestIds :
       /\ waiterLog'[id].contextSet > waiterLog[id].contextSet
            <=> /\ Len(toHost') > 0
                /\ toHost'[Len(toHost')].type = "prepare-context"
                /\ toHost'[Len(toHost')].requestId = id
                /\ Len(toHost') > Len(toHost)
       /\ waiterLog'[id].insertSet > waiterLog[id].insertSet
            <=> /\ Len(toHost') > 0
                /\ toHost'[Len(toHost')].type = "insert-svg"
                /\ toHost'[Len(toHost')].requestId = id
                /\ Len(toHost') > Len(toHost)
  /\ (TakesMessage /\ ~Awaited(Head(toUi))) => UNCHANGED <<uiVars, toHost>>

\* C5: a waiter entry is set exactly when its request message is posted, at most
\* once per request id and map; it is deleted once and its promise settled once,
\* so an entry no longer in the map has been deleted and settled exactly once
\* and an idle orchestrator holds no entry; a context-ready, insert-result or
\* request-canceled message that finds no waiter changes nothing in the UI.
C5_WaitersSettledOnce ==
  /\ []C5_Waiters
  /\ [][C5_Step]_vars

\* A late message is at the head of toUi: its waiter was deleted by the timeout.
C5_Witness ==
  /\ toUi # <<>>
  /\ ~Awaited(Head(toUi))
  /\ Head(toUi).type = "context-ready"
  /\ waiterLog[Head(toUi).requestId].contextDeleted = 1
  /\ run.requestId # Head(toUi).requestId
  /\ run.pc = "prepare_context"

\* C6: a request the user canceled while it was in flight ends as canceled.
C6_CancelWins ==
  \A a \in Range(ledger) : a.canceledAt # <<>> => a.trace.outcome = "canceled"

\* The host step answers the prepare-context or insert-svg message of request id.
AnswersFor(id) ==
  \/ /\ toHost # <<>>
     /\ toHost' = Tail(toHost)
     /\ Head(toHost).requestId = id
     /\ \/ Head(toHost).type = "insert-svg"
        \/ Head(toHost).type = "prepare-context" /\ preparing' = preparing
  \/ \E i \in DOMAIN preparing :
       preparing[i].requestId = id /\ preparing' = without(preparing, i)

\* C7: a host step that answers a prepare-context or insert-svg message of a
\* request whose cancellation flag is set posts request-canceled (and nothing
\* else), leaves the page as it is and removes that flag, and no other.
C7_HostHonoursFlag ==
  [][\A id \in RequestIds :
       (id \in canceledRequests /\ AnswersFor(id))
         => /\ toUi' = Append(toUi, RequestCanceledMsg(id))
            /\ page' = page
            /\ canceledRequests' = canceledRequests \ {id}]_vars

\* The host answered request-canceled twice for one id and holds no flag for
\* it: once when it set the flag, once when the handler of a prepare-context
\* or insert-svg message found and removed it; no node was inserted.
C7_Witness ==
  \E id \in RequestIds :
    /\ Count(toUi, RequestCanceledMsg(id)) = 2
    /\ Len(toUi) = 2
    /\ id \notin canceledRequests
    /\ toHost = <<>>
    /\ preparing = <<>>
    /\ page = <<>>

\* C8: once a request has ended as canceled there is no last-failure record;
\* once it has ended as failed the record holds that request's prompt and mode.
\* (While a request is in flight there is no record either.)
C8_CanceledIsNoFailure ==
  /\ ~Idle => lastFailure = <<>>
  /\ (Idle /\ ledger # <<>>)
       => LET a == ledger[Len(ledger)]
          IN /\ a.trace.outcome = "canceled" => lastFailure = <<>>
             /\ a.trace.outcome = "failed"
                  => lastFailure = <<[prompt |-> a.queryPrompt, mode |-> a.queryMode]>>
             /\ a.trace.outcome = "failed" <=> a.category \in Categories \ {"canceled"}

\* A retried request was canceled: the failure it retried is no longer on record.
C8_Witness ==
  /\ Idle
  /\ Len(ledger) = 2
  /\ ledger[1].trace.outcome = "failed"
  /\ ledger[2].trace.outcome = "canceled"
  /\ lastFailure = <<>>

\* The entry the step appends to the ledger.
Returns(a) == ledger' = Append(ledger, a)

C9_Step ==
  /\ Len(ledger') > Len(ledger)
       => LET a == ledger'[Len(ledger')]
          IN /\ run' = NoRun
             /\ Idle'
             /\ a.trace.endedAt
             /\ diagnostics' # <<>> /\ diagnostics'[1] = a.trace
             /\ a.trace.outcome \in Outcomes
             /\ a.trace.outcome = "success" <=> a.category = ""
             /\ a.trace.outcome # "success" => a.category \in Categories
             /\ a.trace.outcome = "canceled" <=> a.category = "canceled"
  /\ (run # NoRun /\ run' = NoRun) => Len(ledger') > Len(ledger)
  /\ (CancelActiveRequest /\ run.pc \in {"model_call", "repair_if_needed"})
       => \E a \in Range(ledger') : Returns(a) /\ a.category = "canceled"
  /\ ModelFails => \E a \in Range(ledger') : Returns(a) /\ a.category = "model"

\* C9: every activation of runQuery that ends returns through its finally block
\* (trace closed and emitted, descriptor cleared); when it did not succeed its
\* error has exactly one category out of model, parse, validation, insert and
\* canceled; the abort of a pending model call gives canceled and an error
\* thrown by the model call that is no PipelineError gives model.
C9_EveryFailureCategorized == [][C9_Step]_vars

\* Requests have ended with an aborted model call and with a failed one.
C9_Witness ==
  /\ \E a \in Range(ledger) : a.canceledAt = <<"model_call">> /\ a.category = "canceled"
  /\ \E a \in Range(ledger) :
       a.category = "model" /\ EndsWith(a.stageLog, <<"model_call">>) /\ a.canceledAt = <<>>

\* C10: a request whose model text holds no artifact to extract (its last stage
\* is parse: no svg element on the markup shape, no JSON object or malformed
\* JSON on the structured shape) fails with category parse, and no node of
\* that request is on the page.
C10_NoArtifactIsParseFailure ==
  \A a \in Range(ledger) :
    (EndsWith(a.stageLog, <<"parse">>) /\ a.canceledAt = <<>>)
      => /\ a.trace.outcome = "failed"
         /\ a.category = "parse"
         /\ a.requestId \notin Range(page)

\* C11: the trace of a request that ended as failed or canceled holds a
\* validation report, and the category of that report is the category of the
\* error given to the caller.
C11_TraceHoldsCategorizedReport ==
  \A a \in Range(ledger) :
    a.trace.outcome \in {"failed", "canceled"}
      => /\ a.trace.validation # <<>>
         /\ a.trace.validation[1].category = a.category

\* The traces emitted for request id.
TracesOf(id) == {i \in DOMAIN diagnostics : diagnostics[i].requestId = id}

C12_Emitted ==
  \A id \in 1..requestCount :
    Cardinality(TracesOf(id)) = (IF run.requestId = id THEN 0 ELSE 1)

C12_Step ==
  /\ diagnostics' # diagnostics
       => /\ Len(diagnostics) < DIAGNOSTICS_KEPT
          /\ Tail(diagnostics') = diagnostics
          /\ \E a \in Range(ledger') :
               /\ Returns(a)
               /\ a.requestId = run.requestId
               /\ Head(diagnostics') = a.trace
               /\ a.trace.requestId = a.requestId
               /\ a.trace.outcome \in Outcomes
               /\ a.trace.endedAt
               /\ a.trace.route = run.trace.route
               /\ a.trace.responseMode = run.trace.responseMode
  /\ Len(ledger') > Len(ledger) => diagnostics' # diagnostics
  /\ (run # NoRun /\ run' # NoRun)
       => /\ run'.requestId = run.requestId
          /\ run'.trace.requestId = run.requestId
          /\ run'.trace.route = run.trace.route
          /\ run'.trace.responseMode = run.trace.responseMode
          /\ run'.trace.route \in Routes
          /\ run'.trace.responseMode \in ResponseModes
          /\ ~run'.trace.endedAt
          /\ run'.trace.outcome = ""

\* C12: a request in flight has emitted no trace and a request that ended has
\* emitted exactly one; the trace is put in front of the emitted traces in the
\* step in which runQuery returns, with its outcome one of success, failed and
\* canceled and its end time (and with it the total duration) set; the traces
\* emitted before stay as they are; the route and the response shape of a trace
\* are those it was created with.
C12_TraceEmittedOnce ==
  /\ []C12_Emitted
  /\ [][C12_Step]_vars

\* Two requests have ended, and the trace of each was emitted, newest first.
C12_Witness ==
  /\ Idle
  /\ Len(diagnostics) = 2
  /\ diagnostics[1].requestId = 2 /\ diagnostics[1].outcome = "canceled"
  /\ diagnostics[2].requestId = 1 /\ diagnostics[2].outcome = "success"
  /\ diagnostics[1].endedAt /\ diagnostics[2].endedAt

IsPrefix(s, t) == Len(s) <= Len(t) /\ SubSeq(t, 1, Len(s)) = s

\* The stages in order, without and with the repair pass.
StagesInOrder ==
  <<"prepare_context", "route", "model_call", "parse", "validate", "insert_or_return">>
StagesInOrderRepaired ==
  <<"prepare_context", "route", "model_call", "parse", "validate",
    "repair_if_needed", "parse", "validate", "insert_or_return">>

\* C13: the stages a request has entered, in the order it entered them, are a
\* prefix of prepare_context, route, model_call, parse, validate,
\* insert_or_return or of that sequence with repair_if_needed, parse, validate
\* put in before insert_or_return; so parse and validate are entered at most
\* twice, the second time after repair_if_needed, and every other stage at
\* most once.
C13_StagesInOrder ==
  \A a \in Activations :
    /\ IsPrefix(a.stageLog, StagesInOrder) \/ IsPrefix(a.stageLog, StagesInOrderRepaired)
    /\ \A stage \in Range(a.stageLog) :
         Count(a.stageLog, stage) <= (IF stage \in {"parse", "validate"} THEN 2 ELSE 1)
    /\ Count(a.stageLog, "parse") = 2 => Count(a.stageLog, "repair_if_needed") = 1

\* A repaired request went through every stage and succeeded, after a request
\* that went through every stage but the repair.
C13_Witness ==
  /\ Len(ledger) = 2
  /\ ledger[1].stageLog = StagesInOrder
  /\ ledger[2].stageLog = StagesInOrderRepaired
  /\ ledger[2].trace.outcome = "success"

\* C14: the duration map of an emitted trace has an entry for each stage the
\* request entered, the one in which it failed or was aborted included, and
\* for no other stage; while the request is in flight the stages entered are
\* those with an entry and the open one, which is the last one entered.
C14_DurationsOfStagesEntered ==
  /\ \A a \in Range(ledger) : a.trace.stageTimingsMs = Range(a.stageLog)
  /\ run # NoRun
       => /\ run.trace.stageTimingsMs \cup ({run.currentStage} \ {""})
               = Range(run.stageLog)
          /\ run.currentStage # "" => run.currentStage = run.stageLog[Len(run.stageLog)]
          /\ run.trace.stageTimingsMs \subseteq Range(STAGES)

\* A request failed in its model call: the stages up to model_call have a
\* duration, the later ones have none.
C14_Witness ==
  \E a \in Range(ledger) :
    /\ a.category = "model"
    /\ a.stageLog = <<"prepare_context", "route", "model_call">>
    /\ a.trace.stageTimingsMs = {"prepare_context", "route", "model_call"}

\* C15: in vectorize mode the initial model call carries the image: a request
\* whose screenshot is missing or left out for its size makes no model call.
C15_VectorizeCallCarriesImage ==
  \A a \in Activations :
    (a.queryMode = "vectorize" /\ a.imageSent # <<>>) => a.imageSent[1]

\* The call of fn has returned.
Called(fn) == call.fn = fn /\ call.result # <<>>

\* The prompt contains one of the keywords, whatever the case of its letters.
Contains(prompt, keywords) == \E k \in keywords : Includes(Lowered(prompt), k)

\* C16: under override auto in mode create or modify, a prompt that contains a
\* bypass keyword is routed to direct_svg (and is not classified as
\* structured), also when it contains a structural keyword.
C16_BypassWins ==
  /\ (/\ Called("chooseRoute")
      /\ call.routeOverride = "auto"
      /\ call.mode \in {"create", "modify"}
      /\ Contains(call.prompt, BypassKeywords))
       => call.result = <<"direct_svg">>
  /\ (Called("isStructuredTaskPrompt") /\ Contains(call.prompt, BypassKeywords))
       => call.result = <<FALSE>>

\* A prompt with a structural and a bypass keyword, in capitals, went direct.
C16_Witness ==
  /\ Called("chooseRoute")
  /\ call.prompt = "Flowchart of a CIRCUIT"
  /\ Contains(call.prompt, StructuralKeywords)
  /\ Contains(call.prompt, BypassKeywords)
  /\ call.mode = "create"
  /\ call.routeOverride = "auto"
  /\ call.result = <<"direct_svg">>

\* C17: under override auto in mode create or modify, a prompt with a
\* structural keyword (flowchart, process map, workflow and the like) and no
\* bypass keyword is routed to structured_ir, and a prompt with neither kind
\* of keyword to direct_svg.
C17_StructuralKeywordsRouteStructured ==
  (/\ Called("chooseRoute")
   /\ call.routeOverride = "auto"
   /\ call.mode \in {"create", "modify"}
   /\ ~Contains(call.prompt, BypassKeywords))
    => call.result =
         IF Contains(call.prompt, StructuralKeywords \cup {"process map", "workflow"})
         THEN <<"structured_ir">> ELSE <<"direct_svg">>

\* C18: under override auto, mode ask and mode vectorize are routed to
\* direct_svg whatever the prompt, and no prompt is classified as structured
\* in mode ask.
C18_AskAndVectorizeGoDirect ==
  /\ (/\ Called("chooseRoute")
      /\ call.routeOverride = "auto"
      /\ call.mode \in {"ask", "vectorize"})
       => call.result = <<"direct_svg">>
  /\ (Called("isStructuredTaskPrompt") /\ call.mode = "ask") => call.result = <<FALSE>>

\* A flowchart prompt was routed in mode vectorize.
C18_Witness ==
  /\ Called("chooseRoute")
  /\ call.prompt = "make a flowchart"
  /\ call.mode = "vectorize"
  /\ call.routeOverride = "auto"
  /\ call.result = <<"direct_svg">>

C19_Route ==
  /\ \A a \in Activations :
       /\ a.trace.route \in Routes
       /\ a.routeOverride \in Routes => a.trace.route = a.routeOverride
  /\ run # NoRun
       => /\ run.route = run.trace.route
          /\ \A i \in DOMAIN toHost :
               (toHost[i].type = "insert-svg" /\ toHost[i].requestId = run.requestId)
                 => toHost[i].route = run.route

C19_Step ==
  /\ (run # NoRun /\ run' # NoRun)
       => run'.route = run.route /\ run'.routeOverride = run.routeOverride
  /\ \A a \in Range(ledger') : Returns(a) => a.trace.route = run.route

\* C19: a request sent under the override direct_svg or structured_ir has that
\* route, whatever its prompt and mode; the route of a request, chosen when
\* runQuery starts, is the same in every later step of the request (the repair
\* call and the insertion included) and in its trace.
C19_OverrideWinsAndRouteStays ==
  /\ []C19_Route
  /\ [][C19_Step]_vars

\* A flowchart prompt under the override direct_svg is at its repair call, after
\* an ask request under the override structured_ir.
C19_Witness ==
  /\ run.pc = "repair_if_needed"
  /\ run.queryPrompt = "make a flowchart"
  /\ run.routeOverride = "direct_svg"
  /\ run.route = "direct_svg"
  /\ \E a \in Range(ledger) :
       /\ a.queryMode = "ask"
       /\ a.routeOverride = "structured_ir"
       /\ a.trace.route = "structured_ir"

\* The labels of the segments of a prompt.
Labels(text) == {text[i].label : i \in DOMAIN text}

\* C20: the prompt buildPromptText returns in mode vectorize has no
\* SELECTED_CONTEXT_SVG segment, also when the context packet holds markup; in
\* mode modify with markup in the context packet it has one.
C20_NoContextMarkupInVectorize ==
  Called("buildPromptText")
    => /\ call.mode = "vectorize"
            => "SELECTED_CONTEXT_SVG" \notin Labels(call.result[1])
       /\ (call.mode = "modify" /\ call.context.svg # <<>>)
            => "SELECTED_CONTEXT_SVG" \in Labels(call.result[1])

\* The bodies of the segments of a prompt that carry the label.
Bodies(text, label) == {text[i].body : i \in {j \in DOMAIN text : text[j].label = label}}

\* What is embedded is the text cut to the budget: all of it and no marker when
\* it is within the budget, else its first budget characters and a marker
\* that states the length minus the budget.
CutTo(embedded, text, budget) ==
  /\ embedded.of = text
  /\ IF text.length <= budget
     THEN embedded.kept = text.length /\ embedded.removed = <<>>
     ELSE embedded.kept = budget /\ embedded.removed = <<text.length - budget>>

\* C21: the context markup in the prompt is the markup cut to
\* MAX_PROMPT_SVG_CHARS, the broken response in the repair prompt is the
\* response cut to 180000 characters, and truncate cuts any text to its budget:
\* the first budget characters and a marker stating the number removed when the
\* text is longer, the unchanged text without a marker otherwise.
C21_TruncationIsMarked ==
  /\ Called("truncate") => CutTo(call.result[1], call.value, call.maxChars)
  /\ Called("buildPromptText")
       => /\ call.context.svg # <<>>
               => Bodies(call.result[1], "SELECTED_CONTEXT_SVG") # {}
          /\ \A embedded \in Bodies(call.result[1], "SELECTED_CONTEXT_SVG") :
               /\ call.context.svg # <<>>
               /\ CutTo(embedded, call.context.svg[1], MAX_PROMPT_SVG_CHARS)
  /\ Called("buildRepairPrompt")
       => /\ Bodies(call.result[1], "BROKEN_OUTPUT") # {}
          /\ \A embedded \in Bodies(call.result[1], "BROKEN_OUTPUT") :
               CutTo(embedded, call.originalResponse, 180000)

\* A context markup one character over its budget and a broken response far
\* over its own were embedded, cut and marked.
C21_Witness ==
  \/ /\ Called("buildPromptText")
     /\ call.context.svg = <<Text("svg", MAX_PROMPT_SVG_CHARS + 1)>>
     /\ \E embedded \in Bodies(call.result[1], "SELECTED_CONTEXT_SVG") :
          embedded.kept = MAX_PROMPT_SVG_CHARS /\ embedded.removed = <<1>>
  \/ /\ Called("buildRepairPrompt")
     /\ call.originalResponse.length = 400000
     /\ \E embedded \in Bodies(call.result[1], "BROKEN_OUTPUT") :
          embedded.kept = 180000 /\ embedded.removed = <<220000>>

\* The axis-aligned boxes of two nodes overlap.
Overlap(a, b) ==
  /\ a.width # <<>> /\ a.height # <<>> /\ b.width # <<>> /\ b.height # <<>>
  /\ a.x < b.x + b.width[1] /\ b.x < a.x + a.width[1]
  /\ a.y < b.y + b.height[1] /\ b.y < a.y + a.height[1]

\* C22: validateDiagramIR reports the error 'Nodes "a" and "b" overlap, which
\* breaks readability.' for every two nodes a, b (in list order) whose boxes
\* overlap, and for no two nodes whose boxes are disjoint.
C22_OverlapIsAnError ==
  Called("validateDiagramIR")
    => LET nodes == nodesOrEmpty(call.diagram)
       IN \A i, j \in DOMAIN nodes :
            i < j => (Overlap(nodes[i], nodes[j])
                        <=> Err("Nodes overlap, which breaks readability.",
                                <<nodes[i].id, nodes[j].id>>)
                              \in Range(call.result[1].errors))

\* The node ids that can be reached from the ids in S along edges, taken in
\* either direction.
RECURSIVE Reach(_, _)
Reach(S, edges) ==
  LET next == S \cup {e.to : e \in {d \in edges : d.from \in S}}
                \cup {e.from : e \in {d \in edges : d.to \in S}}
  IN IF next = S THEN S ELSE Reach(next, edges)

\* Some node cannot be reached from some other node.
Unconnected(diagram) ==
  LET nodes == nodesOrEmpty(diagram)
      edges == Range(edgesOrEmpty(diagram))
  IN \E i, j \in DOMAIN nodes : nodes[j].id \notin Reach({nodes[i].id}, edges)

\* C23: validateDiagramIR warns about unconnected components exactly when the
\* nodes form more than one connected component under the edges; two nodes
\* apart from each other and joined by an edge give no error and no warning.
C23_UnconnectedIsAWarning ==
  Called("validateDiagramIR")
    => /\ Unconnected(call.diagram)
            <=> Err("Diagram has unconnected components", <<>>)
                  \in Range(call.result[1].warnings)
       /\ call.diagram = Diagram("diagram", 500, 500,
                                 <<Node("1", 100, 100, 100, 50),
                                   Node("2", 300, 100, 100, 50)>>,
                                 <<Edge("e1", "1", "2")>>, "")
            => call.result[1].errors = <<>> /\ call.result[1].warnings = <<>>

\* How many members of a sequence satisfy P.
HowMany(seq, P(_)) == Cardinality({i \in DOMAIN seq : P(seq[i])})

\* A width or height that is present and strictly positive.
Positive(value) == value # <<>> /\ value[1] > 0

\* C24: validateDiagramIR's error list holds one error for every violation of
\* every rule: the kind tag, the canvas size, the empty node list, edges that
\* are not an array, one missing-id error per node with an empty id, one
\* duplicate error per node whose id an earlier node has, one size error per
\* node whose width or height is not positive (also when its id is empty),
\* and one error per missing endpoint of an edge.
C24_EveryViolationReported ==
  Called("validateDiagramIR")
    => LET diagram == call.diagram
           nodes == nodesOrEmpty(diagram)
           edges == edgesOrEmpty(diagram)
           errors == call.result[1].errors
           ids == {nodes[i].id : i \in DOMAIN nodes} \ {""}
           NotSized(node) == ~Positive(node.width) \/ ~Positive(node.height)
       IN /\ diagram.kind # "diagram"
               => Count(errors, Err("Diagram IR kind must be \"diagram\".", <<>>)) = 1
          /\ (diagram.canvas = <<>> \/ ~Positive(diagram.canvas[1].width)
                \/ ~Positive(diagram.canvas[1].height))
               => Count(errors,
                              Err("Diagram canvas width and height must be positive.",
                                  <<>>)) = 1
          /\ nodes = <<>>
               => Count(errors, Err("Diagram must contain at least one node.", <<>>)) = 1
          /\ diagram.edges = <<>>
               => Count(errors, Err("Diagram edges must be an array.", <<>>)) = 1
          /\ Count(errors, Err("Node is missing id.", <<>>))
               = HowMany(nodes, LAMBDA node : node.id = "")
          /\ \A id \in ids :
               /\ Count(errors, Err("Duplicate node id", <<id>>))
                    = HowMany(nodes, LAMBDA node : node.id = id) - 1
          /\ \A id \in ids \cup {""} :
               Count(errors, Err("Node has non-positive size.", <<id>>))
                 = HowMany(nodes, LAMBDA node : node.id = id /\ NotSized(node))
          /\ \A k \in DOMAIN edges :
               /\ edges[k].from \notin ids
                    => Err("Edge references missing from-node.",
                           <<edges[k].id, edges[k].from>>) \in Range(errors)
               /\ edges[k].to \notin ids
                    => Err("Edge references missing to-node.",
                           <<edges[k].id, edges[k].to>>) \in Range(errors)

\* The invariant of a diagram description.
DiagramInvariant(diagram) ==
  LET nodes == nodesOrEmpty(diagram)
      edges == edgesOrEmpty(diagram)
  IN /\ diagram.kind = "diagram"
     /\ diagram.canvas # <<>>
     /\ Positive(diagram.canvas[1].width) /\ Positive(diagram.canvas[1].height)
     /\ nodes # <<>>
     /\ \A i \in DOMAIN nodes :
          /\ nodes[i].id # ""
          /\ Positive(nodes[i].width) /\ Positive(nodes[i].height)
          /\ \A j \in DOMAIN nodes : nodes[i].id = nodes[j].id => i = j
     /\ \A k \in DOMAIN edges :
          /\ \E i \in DOMAIN nodes : nodes[i].id = edges[k].from
          /\ \E i \in DOMAIN nodes : nodes[i].id = edges[k].to

\* C25: a description for which validateDiagramIR reports no error has the
\* kind "diagram", a canvas of strictly positive width and height, at least one
\* node, non-empty and pairwise distinct node ids, nodes of strictly positive
\* width and height, and edges whose from and to are ids of its nodes.
C25_NoErrorsMeansInvariant ==
  (Called("validateDiagramIR") /\ call.result[1].errors = <<>>)
    => DiagramInvariant(call.diagram)

\* runQuery's gates, applied to the report a validator returned: the markup
\* branch after its last validation, and the structured branch on a response
\* that holds the description.  Both go on to the insertion request.
PassesMarkupGate(report) ==
  afterValidation([NoRun EXCEPT !.validationReport = <<report>>]).pc = "insert_or_return"
PassesDiagramGate(diagram) ==
  irBranch(NoRun, JsonResponse(diagram)).pc = "insert_or_return"

\* C26: the report of either validator is repairable exactly when its error
\* list is not empty; a report without errors, whatever its warnings, is not
\* repairable and does not keep runQuery from the insertion request.
C26_RepairableIffErrors ==
  /\ Called("validateSvg")
       => /\ call.result[1].repairable <=> call.result[1].errors # <<>>
          /\ call.result[1].errors = <<>>
               => /\ ~call.result[1].repairable
                  /\ PassesMarkupGate(call.result[1])
  /\ Called("validateDiagramIR")
       => /\ call.result[1].repairable <=> call.result[1].errors # <<>>
          /\ call.result[1].errors = <<>>
               => /\ ~call.result[1].repairable
                  /\ PassesDiagramGate(call.diagram)

\* A description of 101 nodes got the warning and no error, and its report is
\* not repairable.
C26_Witness ==
  /\ Called("validateDiagramIR")
  /\ call.diagram = LargeDiagram("diagram")
  /\ call.result[1].warnings # <<>>
  /\ call.result[1].errors = <<>>
  /\ ~call.result[1].repairable

\* The report of the early return: the category parse, repairable, and the
\* sanitized string as it was.
EarlyReturn(report, doc) ==
  report.category = "parse" /\ report.repairable /\ report.svg = <<doc>>

\* C27 as stated: for markup that does not parse, the empty string too,
\* validateSvg returns the category parse, repairable, the sanitized string
\* and exactly one error, the XML parse error.
C27_ParseFailureHasOneError ==
  (Called("validateSvg") /\ ~call.svgInput.wellFormed)
    => /\ EarlyReturn(call.result[1], call.svgInput)
       /\ call.result[1].errors = <<Err("SVG XML parse error.", <<>>)>>

\* C27, amended: for markup that does not parse validateSvg returns the
\* category parse, repairable and the sanitized string; the error list is the
\* XML parse error alone when the string is not empty, and the emptiness error
\* followed by the XML parse error when it is.
C27_ParseFailureReturnsEarly ==
  (Called("validateSvg") /\ ~call.svgInput.wellFormed)
    => /\ EarlyReturn(call.result[1], call.svgInput)
       /\ call.result[1].errors
            = (IF call.svgInput.empty THEN <<Err("SVG content is empty.", <<>>)>> ELSE <<>>)
              \o <<Err("SVG XML parse error.", <<>>)>>

\* The empty string got the two errors and the early return.
C27_Witness ==
  /\ Called("validateSvg")
  /\ call.svgInput.empty
  /\ ~call.svgInput.wellFormed
  /\ Len(call.result[1].errors) = 2
  /\ EarlyReturn(call.result[1], call.svgInput)

\* Markup with an svg root and a viewBox, no other attribute on the root, no
\* element a rule objects to, and no more elements than the ceiling.
Minimal(doc) ==
  /\ doc.wellFormed /\ doc.rootTag = "svg" /\ doc.viewBox
  /\ doc.rootAttrs = <<>> /\ doc.elements = <<>>
  /\ 1 + doc.extra <= MAX_SVG_NODE_COUNT

\* C28: for markup that parses, a root whose tag is not svg (whatever the case
\* of its letters), a missing viewBox and more than MAX_SVG_NODE_COUNT elements
\* are each an error, and the count is an error in no other case; missing
\* width or height and a length above the ceiling are each a warning and never
\* an error; minimal markup gets no error and goes on to the insertion
\* request, whatever its warnings.
C28_ErrorsAndWarnings ==
  (Called("validateSvg") /\ call.svgInput.wellFormed)
    => LET doc == call.svgInput
           errors == Range(call.result[1].errors)
           warnings == Range(call.result[1].warnings)
           sizeWarning == Err("SVG width/height missing; relying on viewBox only.", <<>>)
           longWarning == Err("SVG length is very large.", <<>>)
       IN /\ ToLower(doc.rootTag) # "svg"
               => Err("Root element must be <svg>.", <<>>) \in errors
          /\ ~doc.viewBox
               => Err("Missing required viewBox attribute on <svg>.", <<>>) \in errors
          /\ 1 + Len(doc.elements) + doc.extra > MAX_SVG_NODE_COUNT
               <=> Err("SVG has too many nodes.", <<>>) \in errors
          /\ (~doc.width \/ ~doc.height) <=> sizeWarning \in warnings
          /\ doc.long <=> longWarning \in warnings
          /\ sizeWarning \notin errors /\ longWarning \notin errors
          /\ Minimal(doc)
               => /\ errors = {}
                  /\ PassesMarkupGate(call.result[1])

\* Minimal markup that is long and has no width got both warnings, no error,
\* and goes on to the insertion request.
C28_Witness ==
  /\ Called("validateSvg")
  /\ Minimal(call.svgInput)
  /\ call.svgInput.long /\ ~call.svgInput.width
  /\ Len(call.result[1].warnings) = 2
  /\ call.result[1].errors = <<>>
  /\ PassesMarkupGate(call.result[1])

\* The tags of the elements of a document, the root's among them.
Tags(doc) == {doc.rootTag} \cup {doc.elements[i].tag : i \in DOMAIN doc.elements}

\* The tags the disallowed-tag errors of a report name.
NamedTags(report) ==
  UNION {Range(e.args) : e \in {d \in Range(report.errors) : d.msg = "Disallowed tags found"}}

\* C29: for markup that parses, every tag among script, foreignObject, iframe,
\* object and embed that an element of the document has is named (in any case
\* of letters) by a disallowed-tag error, and markup with no such element gets
\* no disallowed-tag error.
C29_DisallowedTagsReported ==
  (Called("validateSvg") /\ call.svgInput.wellFormed)
    => LET offending == Tags(call.svgInput)
                          \cap {"script", "foreignObject", "iframe", "object", "embed"}
           named == NamedTags(call.result[1])
       IN /\ \A tag \in offending : tag \in named \/ ToLower(tag) \in named
          /\ {tag \in Tags(call.svgInput) : ToLower(tag) \in Range(disallowedTags)} = {}
               => named = {}

\* The attributes of the elements of a document (those of the root other than
\* viewBox, width and height), as a set of places: 0 is the root, i the i-th
\* element below it, k the position of the attribute on its element.
AttrPlaces(doc) ==
  {<<0, k>> : k \in DOMAIN doc.rootAttrs}
  \cup {<<i, k>> : i \in DOMAIN doc.elements, k \in 1..2}
AttrsOf(doc) ==
  {p \in AttrPlaces(doc) :
     p[1] = 0 \/ p[2] \in DOMAIN doc.elements[p[1]].attrs}
AttrAt(doc, p) ==
  IF p[1] = 0 THEN doc.rootAttrs[p[2]] ELSE doc.elements[p[1]].attrs[p[2]]

\* An attribute whose name starts with "on", and an href or xlink:href whose
\* value is an absolute http or https URL, in any case of letters.
IsEventAttr(attr) == attr.name \in {"onclick", "onClick", "onload"}
IsExternalHref(attr) ==
  /\ attr.name \in {"href", "HREF", "xlink:href"}
  /\ attr.value \in {"http://x", "https://x", "HTTPS://x"}

\* C30: for markup that parses, validateSvg reports one error naming the
\* attribute for each attribute whose name starts with "on", and one
\* external-reference error for each href or xlink:href whose value is an
\* absolute http or https URL, names and values compared without regard to
\* case; markup with no such attribute gets neither error.
C30_EventAndExternalAttributes ==
  (Called("validateSvg") /\ call.svgInput.wellFormed)
    => LET doc == call.svgInput
           errors == call.result[1].errors
           attrs == AttrsOf(doc)
       IN /\ \A name \in {"onclick", "onClick", "onload"} :
               Count(errors, Err("Event attribute is not allowed.", <<name>>))
                 = Cardinality({p \in attrs : AttrAt(doc, p).name = name})
          /\ Count(errors, Err("External href references are not allowed.", <<>>))
               = Cardinality({p \in attrs : IsExternalHref(AttrAt(doc, p))})
          /\ \A i \in DOMAIN errors :
               errors[i].msg = "Event attribute is not allowed."
                 => \E p \in attrs : /\ IsEventAttr(AttrAt(doc, p))
                                      /\ errors[i].args = <<AttrAt(doc, p).name>>

\* An onClick attribute and an xlink:href to HTTPS://x, in capitals, were each
\* reported.
C30_Witness ==
  /\ Called("validateSvg")
  /\ call.svgInput.wellFormed
  /\ call.svgInput.elements = <<Elem("rect", <<Attr("onClick", "alert(1)")>>),
                                Elem("rect", <<Attr("xlink:href", "HTTPS://x")>>)>>
  /\ Err("Event attribute is not allowed.", <<"onClick">>) \in Range(call.result[1].errors)
  /\ Err("External href references are not allowed.", <<>>) \in Range(call.result[1].errors)

\* The value drawn for an optional number of the description: the number when
\* it is set, the default when it is not.
GivenOr(value, default) == IF value # <<>> THEN value[1] ELSE default

\* C32: renderDiagramIrToSvg translates the group by canvas.padding whenever
\* padding is set, 0 too, and by 24 only when it is not set; likewise the
\* stroke width (default 2) and the font size (default 14) set in styles are
\* used as given, 0 too.
C32_SetValuesAreUsed ==
  Called("renderDiagramIrToSvg")
    => LET drawn == call.result[1].drawn
       IN /\ drawn.padding = GivenOr(call.diagram.canvas[1].padding, 24)
          /\ drawn.strokeWidth = GivenOr(call.diagram.styles.strokeWidth, 2)
          /\ drawn.fontSize = GivenOr(call.diagram.styles.fontSize, 14)

\* C40: the markup renderDiagramIrToSvg returns for a description that
\* validateDiagramIR accepts without an error is accepted by validateSvg
\* without an error, whatever strings the labels and the styles hold.
C40_RenderedMarkupIsValid ==
  (Called("renderDiagramIrToSvg") /\ validateDiagramIR(call.diagram).errors = <<>>)
    => validateSvg(call.result[1]).errors = <<>>

\* The RESPONSE_FORMAT tag that asks for a response shape.
FormatFor(responseMode) ==
  CASE responseMode = "text" -> "TEXT"
    [] responseMode = "ir_json" -> "JSON_DIAGRAM_IR"
    [] responseMode = "svg" -> "SVG"

\* C37: for every mode and route the prompt's RESPONSE_FORMAT tag is the one
\* for the shape responseModeFor gives (TEXT for text, JSON_DIAGRAM_IR for
\* ir_json, SVG for svg), and systemPromptFor gives the structured template
\* exactly when that shape is ir_json.
C37_FormatMatchesShape ==
  Called("buildPromptText")
    => LET responseMode == responseModeFor(call.mode, call.route)
       IN /\ Bodies(call.result[1], "RESPONSE_FORMAT") = {FormatFor(responseMode)}
          /\ systemPromptFor(call.mode, call.route) = "STRUCTURED_IR_PROMPT"
               <=> responseMode = "ir_json"

\* The images among the parts of a model request.
Images(parts) ==
  {parts[i].inline_data : i \in {j \in DOMAIN parts : "inline_data" \in DOMAIN parts[j]}}

\* C39: the prompt of a model request has the SCREENSHOT_ATTACHED marker only
\* if the request carries an image, and the marker then states the estimated
\* size of that image (three quarters of its base64 length, rounded down);
\* a request without an image has no marker.
C39_MarkerMeansImage ==
  Called("firstModelRequest")
    => LET request == call.result[1]
       IN \A bytes \in Bodies(request.userText, "SCREENSHOT_ATTACHED") :
            \E image \in Images(request.parts) : bytes = (image[1] * 3) \div 4

\* The step posts an insert-svg message to the host.
InsertPosted ==
  /\ toHost' # <<>>
  /\ toHost' = Append(toHost, toHost'[Len(toHost')])
  /\ toHost'[Len(toHost')].type = "insert-svg"

\* The insert-svg message is for the markup of the run's latest validation
\* report, which has no errors, in a run that is not a text run.
InsertsCleanMarkup ==
  LET message == toHost'[Len(toHost')]
  IN /\ message.requestId = run'.requestId
     /\ run'.responseMode # "text"
     /\ run'.queryMode # "ask"
     /\ run'.category = ""
     /\ run'.validationReport # <<>>
     /\ run'.validationReport[1].errors = <<>>
     /\ message.svg = run'.validationReport[1].svg

\* A text run, and a run that failed to parse or to validate, has asked for no
\* insertion and has no node on the page.
FailedRunsInsertNothing ==
  \A a \in Activations :
    (a.trace.responseMode = "text" \/ a.category \in {"parse", "validation"})
      => /\ waiterLog[a.requestId].insertSet = 0
         /\ a.requestId \notin Range(page)
         /\ \A i \in DOMAIN toHost : ~(toHost[i].type = "insert-svg"
                                        /\ toHost[i].requestId = a.requestId)

Active(id) == activeRequestRef # <<>> /\ activeRequestRef[1].requestId = id

\* The request id has reached a terminal outcome and is no longer active.
Terminated(id) ==
  /\ ~Active(id)
  /\ \E i \in DOMAIN ledger :
       /\ ledger[i].requestId = id
       /\ ledger[i].trace.outcome \in {"success", "failed", "canceled"}
       /\ ledger[i].trace.endedAt

\* The activation that has just returned.
JustReturned == ledger'[Len(ledger')]

\* C34: with timers that fire and model calls that return or fail, every
\* accepted request reaches a terminal outcome and the active-request
\* descriptor is cleared, whatever the host does or fails to do; a context
\* timeout ends the request with category model and an insertion timeout
\* with category insert.
C34_EveryRequestTerminates ==
  /\ \A id \in RequestIds : Active(id) ~> Terminated(id)
  /\ [][/\ ContextTimeout => JustReturned.category = "model"
        /\ InsertTimeout => JustReturned.category = "insert"]_vars

\* A request ended by the insertion timeout: the host never answered insert-svg.
C34_Witness ==
  \E i \in DOMAIN ledger :
    /\ ledger[i].category = "insert"
    /\ Terminated(ledger[i].requestId)
    /\ \E j \in DOMAIN toHost : /\ toHost[j].type = "insert-svg"
                                /\ toHost[j].requestId = ledger[i].requestId

\* The types of reply a request message may be answered with.
ReplyTypes(type) ==
  CASE type = "prepare-context" -> {"context-ready", "request-canceled"}
    [] type = "insert-svg" -> {"insert-result", "request-canceled"}
    [] type = "cancel-request" -> {"request-canceled"}

\* The step posts one reply, and it answers the message.
AnswersOnce(message) ==
  /\ toUi' # <<>>
  /\ toUi' = Append(toUi, toUi'[Len(toUi')])
  /\ toUi'[Len(toUi')].requestId = message.requestId
  /\ toUi'[Len(toUi')].type \in ReplyTypes(message.type)

\* The host took the next message: it answers it once, or it is a
\* prepare-context whose handler now waits for an export and answers later.
HostTakesMessage ==
  (toHost # <<>> /\ toHost' = Tail(toHost))
    => \/ AnswersOnce(Head(toHost)) /\ preparing' = preparing
       \/ /\ Head(toHost).type = "prepare-context"
          /\ preparing' = Append(preparing, Head(toHost))
          /\ toUi' = toUi

\* A handler that waited for an export ends: it answers its message once.
EndsPreparing ==
  Len(preparing') < Len(preparing)
    => /\ toHost' = toHost
       /\ \E i \in DOMAIN preparing :
            preparing' = without(preparing, i) /\ AnswersOnce(preparing[i])

\* A reply is posted only by a handler taking or finishing a message.
RepliesOnlyToMessages ==
  toUi' # toUi
    => (toHost # <<>> /\ toHost' = Tail(toHost)) \/ Len(preparing') < Len(preparing)

\* C35: the host answers each request message with exactly one reply of the
\* same request id: prepare-context with context-ready or request-canceled,
\* insert-svg with insert-result or request-canceled, cancel-request with
\* request-canceled; no reply carries another id or answers no message.
C35_OneReplyPerMessage ==
  [][HostTakesMessage /\ EndsPreparing /\ RepliesOnlyToMessages]_vars

\* All three kinds of message have been answered, each with its own reply.
C35_Witness ==
  /\ toHost = <<>>
  /\ preparing = <<>>
  /\ {toUi[i].type : i \in DOMAIN toUi}
       = {"context-ready", "insert-result", "request-canceled"}

\* The activation r run with the given forceRepair argument.
Forced(r, forceRepair) == [r EXCEPT !.forceRepair = forceRepair]

\* The first validation of the markup extracted from the response reports an
\* error.
FirstValidationFails(response) ==
  LET svg == extractSvgFromResponse(response)
  IN svg # <<>> /\ Len(validateSvg(svg[1]).errors) > 0

\* C36: forceRepair does not change what the pipeline does: whatever the model
\* answers, the run continued with forceRepair = true and the run continued
\* with forceRepair = false enter the same stages, make the same model calls
\* and reach the same outcome, and the repair stage is entered exactly when
\* the first validation of the extracted markup reports an error.
C36_ForceRepairChangesNothing ==
  run.pc = "model_call"
    => \A response \in ModelResponses :
         LET forced == afterModelCall(Forced(run, TRUE), response, aborted)
             plain == afterModelCall(Forced(run, FALSE), response, aborted)
         IN /\ Forced(forced, FALSE) = plain
            /\ "repair_if_needed" \in Range(plain.stageLog)
                 <=> (run.responseMode = "svg" /\ FirstValidationFails(response))

\* A retry with repair whose first markup was valid waits for the insertion
\* without a repair call.
C36_Witness ==
  /\ run.forceRepair
  /\ run.responseMode = "svg"
  /\ run.pc = "insert_or_return"
  /\ ~run.repaired
  /\ run.modelCalls = 1

\* The host has handled every message of the request id.
HostDoneWith(id) ==
  /\ \A i \in DOMAIN toHost : toHost[i].requestId # id
  /\ \A i \in DOMAIN preparing : preparing[i].requestId # id

\* C38: the host's cancellation flags do not leak: once a canceled request
\* has terminated and the host has handled all of its messages, the set of
\* flags does not hold its id.
C38_FlagsDoNotLeak ==
  \A id \in RequestIds :
    (Terminated(id) /\ HostDoneWith(id)) => id \notin canceledRequests
====
